---- MODULE Spec2Model ----
(***************************************************************************)
(* Contract-Intelligence-API: the four in-memory algorithms of             *)
(* src/src/utils.py (chunker, field extractor, lexical retriever, risk     *)
(* auditor), each as a state machine over its call, and the handlers of    *)
(* src/src/api.py over the tables of the database.                         *)
(*                                                                         *)
(* Text representation.  The chunker works on single characters, so its    *)
(* text is a sequence of one-character strings; the line feed is written   *)
(* "LF" and the blank " ".  The regular expressions of the auditor and of  *)
(* the extractor work on words, so there a text is a sequence of words; it *)
(* stands for the words joined by single blanks, the word "LF" standing    *)
(* for a line feed.  Character offsets are computed from the word lengths. *)
(* On such texts a regular expression is matched word by word.             *)
(***************************************************************************)
EXTENDS Integers, Sequences, FiniteSets, TLC

VARIABLES
    pc,             \* position of the running call
    text,           \* the text argument
    chunk_size,     \* chunk_text: chunk_size argument
    chunk_overlap,  \* chunk_text: chunk_overlap argument
    start,          \* chunk_text: the cursor
    end,            \* chunk_text: the end chosen by the last iteration
    chunks,         \* chunk_text: the list being built
    windows,        \* chunk_text: the pairs (start, end) of the slices cut so far
    extracted_data, \* audit_document: the fact map argument (or NoData)
    findings,       \* audit_document / calculate_risk_score: the finding list
    risk_score,     \* audit_document / calculate_risk_score: the score
    risk_rules,     \* RiskAuditEngine.RISK_RULES, the class-level rule table
    first_call,     \* arguments and result of the first audit call of the run
    calls,          \* number of audit calls that have returned
    query,          \* semantic_search: the query argument
    corpus,         \* semantic_search: the chunks argument
    top_k,          \* semantic_search: the top_k argument
    results,        \* semantic_search: the returned list
    auto_renewal,   \* extract_auto_renewal: the returned string
    liability_cap,  \* extract_liability_cap: the returned map
    parties,        \* extract_parties: the returned list
    hash_seed,      \* the string hash seed of the running process
    past,           \* extract_parties: the lists returned by earlier runs
    effective_date, \* extract_dates: the returned string
    term,           \* extract_term: the returned string
    law,            \* extract_governing_law: the returned string
    llm,            \* the LLM client: "unavailable", "fails" or "answers"
    summary,        \* generate_audit_summary: the returned string
    response,       \* the response of the API to the request
    request,        \* the request being answered: endpoint and document_id
    documents,      \* table documents: the document_id of every row
    document_files, \* table documents: the pairs of document_id and filename
    document_chunks,\* table document_chunks, in insertion order
    extracted_rows, \* table extracted_data, in insertion order
    finding_rows,   \* table audit_findings, in insertion order
    inflight,       \* /audit: the requests being answered side by side
    events,         \* /stream: the events sent so far
    deltas          \* /stream: what the stream of the LLM has yet to deliver

chunkVars == <<chunk_size, chunk_overlap, start, end, chunks, windows>>
auditVars == <<extracted_data, findings, risk_score, risk_rules, first_call, calls>>
searchVars == <<query, corpus, top_k, results>>
extractVars == <<auto_renewal, liability_cap>>
partyVars == <<parties, hash_seed, past>>
fieldVars == <<effective_date, term, law>>
apiVars == <<llm, summary, response>>
streamVars == <<events, deltas>>
dbVars == <<request, documents, document_files, document_chunks, extracted_rows,
           finding_rows, inflight>>
vars == <<pc, text, chunkVars, auditVars, searchVars, extractVars, partyVars,
          fieldVars, apiVars, dbVars, streamVars>>

----------------------------------------------------------------------------
(* Bounds of the model *)

MaxLen == 5         \* longest chunker text, in characters
MaxSize == 3        \* largest chunk_size
MaxOverlap == 3     \* largest chunk_overlap
MaxChunks == 8      \* chunk_text stops being followed once the list is this long
MaxBack == 6        \* ... or once the cursor is this far below 0
MaxFragments == 2   \* longest audited text, in fragments
MaxFindings == 4    \* longest finding list handed to calculate_risk_score
MaxCalls == 3       \* audit calls of one run
MaxQueryLen == 3    \* longest query, in characters
MaxCorpus == 3      \* largest number of chunks searched
MaxTopK == 2        \* largest top_k
MaxClauses == 3     \* longest text handed to the extractor, in fragments
MaxParts == 2       \* longest text handed to extract_parties, in fragments
MaxRuns == 2        \* runs of extract_parties on one text
MaxAskChunks == 7   \* largest number of chunks of the documents asked about
MaxDeltas == 2      \* longest stream of the LLM, in deltas
MaxRequests == 2    \* /audit requests answered side by side
MaxFiles == 2       \* files of one /ingest request
MaxRun == 7         \* longest run of letters of a chunker text made of runs
MaxWindow == 7      \* largest chunk_size tried on such a text

----------------------------------------------------------------------------
(* Generic helpers *)

Max(a, b) == IF a >= b THEN a ELSE b
Min(a, b) == IF a <= b THEN a ELSE b

\* All sequences over S of length 0..n
SeqsUpTo(S, n) == UNION {[1..k -> S] : k \in 0..n}

\* Python s[i:j]: negative indices count from the end, everything is clamped
PySlice(s, i, j) ==
    LET n == Len(s)
        lo == IF i < 0 THEN Max(i + n, 0) ELSE Min(i, n)
        hi == IF j < 0 THEN Max(j + n, 0) ELSE Min(j, n)
    IN IF lo >= hi THEN <<>> ELSE SubSeq(s, lo + 1, hi)

\* s[1] \o s[2] \o ... for a sequence of sequences
RECURSIVE Flatten(_)
Flatten(s) == IF s = <<>> THEN <<>> ELSE Head(s) \o Flatten(Tail(s))

----------------------------------------------------------------------------
(* PDFProcessor.chunk_text *)

ChunkChars == {"a", ".", "!", " ", "LF"}
Whitespace == {" ", "LF"}

\* the boundary patterns of the loop, in list order:  \.\s  \!\s  \?\s  \n\n
\* each is two character classes
BoundaryPatterns ==
    << <<{"."}, Whitespace>>, <<{"!"}, Whitespace>>,
       <<{"?"}, Whitespace>>, <<{"LF"}, {"LF"}>> >>

\* Non-overlapping left-to-right matching of a two-class pattern p, as
\* re.finditer does it.  PairAt: the two characters at 0-based offset k fit p.
PairAt(p, s, k) ==
    k >= 0 /\ k + 2 <= Len(s) /\ s[k + 1] \in p[1] /\ s[k + 2] \in p[2]

\* how many fitting offsets stand directly before k, one after the other
ChainBefore(p, s, k) ==
    CHOOSE j \in 0..k :
        /\ \A i \in 1..j : PairAt(p, s, k - i)
        /\ ~PairAt(p, s, k - j - 1)

\* finditer reports a fitting offset unless the match before it overlaps it
MatchAt(p, s, k) == PairAt(p, s, k) /\ ChainBefore(p, s, k) % 2 = 0

\* list(re.finditer(p, s))[-1].end(), or -1 when there is no match
LastMatchEnd(p, s) ==
    LET M == {k \in 0..(Len(s) - 2) : MatchAt(p, s, k)}
    IN IF M = {} THEN -1 ELSE (CHOOSE k \in M : \A j \in M : j <= k) + 2

\* the for-loop over the patterns: the first pattern with a match decides;
\* -1 when no pattern matches
BoundaryEnd(s) ==
    LET hit == {i \in 1..Len(BoundaryPatterns) :
                    LastMatchEnd(BoundaryPatterns[i], s) >= 0}
    IN IF hit = {} THEN -1
       ELSE LastMatchEnd(BoundaryPatterns[CHOOSE i \in hit : \A j \in hit : i <= j], s)

SentenceWindow == 100

\* the end chosen by one iteration of the loop with the cursor at st
ChooseEnd(t, size, st) ==
    LET cand == st + size
    IN IF cand < Len(t)
       THEN LET search_start == Max(st, cand - SentenceWindow)
                search_text == PySlice(t, search_start, cand + SentenceWindow)
                m == BoundaryEnd(search_text)
            IN IF m >= 0 THEN search_start + m ELSE cand
       ELSE cand

\* str.strip(): what lies between the first and the last non-blank character
Strip(s) ==
    LET ink == {i \in 1..Len(s) : s[i] \notin Whitespace}
    IN IF ink = {} THEN <<>>
       ELSE SubSeq(s, CHOOSE i \in ink : \A j \in ink : i <= j,
                      CHOOSE i \in ink : \A j \in ink : j <= i)

ValidConfig == chunk_size > 0 /\ 0 <= chunk_overlap /\ chunk_overlap < chunk_size
----------------------------------------------------------------------------
(* Texts of words and the regular expressions applied to them *)

\* Python's None, and None in a place that otherwise holds a character offset
None == "None"
NoPos == -1

\* str.lower() of a word (re.IGNORECASE compares case-insensitively)
Lower(w) ==
    CASE w = "Governing" -> "governing"
      [] w = "Law" -> "law"
      [] w = "Automatically" -> "automatically"
      [] w = "USD" -> "usd"
      [] w = "EUR" -> "eur"
      [] w = "GBP" -> "gbp"
      [] w = "BETWEEN" -> "between"
      [] w = "Effective" -> "effective"
      [] w = "Date:" -> "date:"
      [] w = "January" -> "january"
      [] w = "March" -> "march"
      [] w = "Term:" -> "term:"
      [] w = "Law:" -> "law:"
      [] w = "Delaware" -> "delaware"
      [] w = "Delaware." -> "delaware."
      [] w = "New" -> "new"
      [] w = "York" -> "york"
      [] w = "Texas" -> "texas"
      [] w = "Ohio" -> "ohio"
      [] w = "PARTY" -> "party"
      [] w = "A:" -> "a:"
      [] w = "Client:" -> "client:"
      [] w = "Vendor:" -> "vendor:"
      [] w = "Contractor:" -> "contractor:"
      [] OTHER -> w

\* number of characters of a word ("LF" is the single line feed character,
\* "(euro)" and "(pound)" are the two currency signs, "FILL" is a run of 1985
\* characters "#", "NINES" a number of 5000 digits 9)
FillLen == 1985
NinesLen == 5000
WLen(w) ==
    IF w \in {"LF", "(euro)", "(pound)"} THEN 1
    ELSE IF w = "FILL" THEN FillLen
    ELSE IF w = "NINES" THEN NinesLen ELSE Len(w)

\* 0-based character offset of the i-th word of t, and len(t)
RECURSIVE Off(_, _)
Off(t, i) == IF i <= 1 THEN 0 ELSE Off(t, i - 1) + WLen(t[i - 1]) + 1
TextLen(t) == IF t = <<>> THEN 0 ELSE Off(t, Len(t)) + WLen(t[Len(t)])

\* A regex item is a function from the (lower-case) words it matches to the
\* number of characters of the word it consumes.  W: one of the literals as a
\* whole word; Pre: the literal lit at the start of one of the words of S.
W(S) == [w \in S |-> Len(w)]
Pre(lit, S) == [w \in S |-> Len(lit)]
Digits == [w \in {"10", "30", "NINES"} |-> WLen(w)]

\* int(match.group(1)) of a number word
NumVal(w) == CASE w = "10" -> 10 [] w = "30" -> 30

\* A phrase is a sequence of items separated by \s+ (strict = FALSE: line feeds
\* may stand between the words) or by one literal blank (strict = TRUE).
Phrase(items) == [items |-> items, strict |-> FALSE]
Literal(items) == [items |-> items, strict |-> TRUE]

\* A pattern is a head phrase, optionally followed by the lazy gap .*? and one
\* of several tail phrases (alternatives in regex order).
Pat(head) == [head |-> head, gap |-> FALSE, tails |-> <<>>]
GapPat(head, tails) == [head |-> head, gap |-> TRUE, tails |-> tails]

\* first position >= p that holds no line feed (Len(t) + 1 when there is none)
SkipWs(t, p) ==
    CHOOSE q \in p..(Len(t) + 1) :
        /\ q = Len(t) + 1 \/ t[q] # "LF"
        /\ \A r \in p..(q - 1) : t[r] = "LF"

\* The word at which phrase ph ends when its item i stands at word p of t;
\* 0 when it does not match there.  An item that is not the last of its
\* phrase is followed by white space, so it must consume its whole word.
RECURSIVE PhraseEnd(_, _, _, _)
PhraseEnd(ph, i, t, p) ==
    IF p > Len(t) THEN 0
    ELSE IF Lower(t[p]) \notin DOMAIN ph.items[i] THEN 0
    ELSE IF i = Len(ph.items) THEN p
    ELSE IF ph.items[i][Lower(t[p])] # WLen(t[p]) THEN 0
    ELSE PhraseEnd(ph, i + 1, t, IF ph.strict THEN p + 1 ELSE SkipWs(t, p + 1))

\* character offset just after the match of phrase ph that ends in word we
PhraseEndChar(ph, t, we) == Off(t, we) + ph.items[Len(ph.items)][Lower(t[we])]

\* a match object: ws, we the first and last word, ts the first word of the
\* tail (0: no tail), s and e the values of match.start() and match.end()
NoMatch == [ok |-> FALSE, ws |-> 0, we |-> 0, ts |-> 0, s |-> 0, e |-> 0]

\* the least element of a set of numbers
SetMin(S) == CHOOSE x \in S : \A y \in S : x <= y

\* the first alternative of the tails that matches at word q (0: none)
TailAt(pat, t, q) ==
    IF \E a \in 1..Len(pat.tails) : PhraseEnd(pat.tails[a], 1, t, q) > 0
    THEN SetMin({a \in 1..Len(pat.tails) : PhraseEnd(pat.tails[a], 1, t, q) > 0})
    ELSE 0

\* the match object of a match from word p to word we whose last phrase is ph
Match(t, p, we, ts, ph) ==
    [ok |-> TRUE, ws |-> p, we |-> we, ts |-> ts,
     s |-> Off(t, p), e |-> PhraseEndChar(ph, t, we)]

\* the words behind word he at which the lazy gap can end: a tail matches
\* there, and no line feed lies in the gap (the dot does not match it)
GapEnds(pat, t, he) ==
    {q \in (he + 1)..Len(t) :
        /\ \A r \in (he + 1)..(q - 1) : t[r] # "LF"
        /\ TailAt(pat, t, q) > 0}

\* the match with the tail phrase tl at word q
TailMatch(t, p, q, tl) == Match(t, p, PhraseEnd(tl, 1, t, q), q, tl)

\* the lazy gap ends at the nearest of the words Q
GapMatch(pat, t, p, Q) ==
    IF Q = {} THEN NoMatch
    ELSE TailMatch(t, p, SetMin(Q), pat.tails[TailAt(pat, t, SetMin(Q))])

\* the match of pat whose head starts at word p and ends at word he (0: the
\* head does not match at p)
HeadMatch(pat, t, p, he) ==
    IF he = 0 THEN NoMatch
    ELSE IF ~pat.gap THEN Match(t, p, he, 0, pat.head)
    ELSE GapMatch(pat, t, p, GapEnds(pat, t, he))

\* the match of pat that starts at word p
WordMatchAt(pat, t, p) == HeadMatch(pat, t, p, PhraseEnd(pat.head, 1, t, p))

\* the match at the first of the words P
FirstMatch(pat, t, P) ==
    IF P = {} THEN NoMatch ELSE WordMatchAt(pat, t, SetMin(P))

\* re.search(pat, t): the leftmost match
re_search(pat, t) ==
    FirstMatch(pat, t, {p \in 1..Len(t) : WordMatchAt(pat, t, p).ok})

\* list(re.finditer(pat, t)): the non-overlapping matches from word p on; m is
\* the match at word p
RECURSIVE re_finditer(_, _, _)
RECURSIVE MatchesFrom(_, _, _, _)
MatchesFrom(pat, t, p, m) ==
    IF m.ok THEN <<m>> \o re_finditer(pat, t, m.we + 1)
    ELSE re_finditer(pat, t, p + 1)

re_finditer(pat, t, p) ==
    IF p > Len(t) THEN <<>> ELSE MatchesFrom(pat, t, p, WordMatchAt(pat, t, p))

\* the words of t[lo:hi] (lo, hi character offsets, 0 <= lo): the words that lie
\* in the slice as a whole
WordsInside(t, lo, hi) ==
    {i \in 1..Len(t) : Off(t, i) >= lo /\ Off(t, i) + WLen(t[i]) <= hi}

FromWord(t, first, n) == [k \in 1..n |-> t[first + k - 1]]

SliceWords(t, lo, hi) ==
    IF WordsInside(t, lo, hi) = {} THEN <<>>
    ELSE FromWord(t, SetMin(WordsInside(t, lo, hi)),
                  Cardinality(WordsInside(t, lo, hi)))

----------------------------------------------------------------------------
(* RiskAuditEngine *)

\* The fact map: a dict (keys: the keys present) or None (isNone).
NoData == [isNone |-> TRUE, keys |-> {}, termination |-> None, governing_law |-> None]
Dict(keys, termination, governing_law) ==
    [isNone |-> FALSE, keys |-> keys,
     termination |-> termination, governing_law |-> governing_law]
\* bool(extracted_data), extracted_data.get(key), bool(value)
DictTruthy(d) == ~d.isNone /\ d.keys # {}
DictGet(d, key) == IF key \in d.keys THEN d[key] ELSE None
Truthy(v) == v \notin {None, ""}

\* evidence: a fixed message, or the text between two character offsets
\* (kind "strip": text[lo:hi].strip(), kind "slice": text[lo:hi])
Evidence(kind, msg, lo, hi) == [kind |-> kind, msg |-> msg, lo |-> lo, hi |-> hi]

\* what a check function returns: a dict (found) or None
NoResult == [found |-> FALSE, evidence |-> Evidence("literal", "", NoPos, NoPos),
             char_start |-> NoPos, char_end |-> NoPos]
Result(evidence, char_start, char_end) ==
    [found |-> TRUE, evidence |-> evidence,
     char_start |-> char_start, char_end |-> char_end]

TerminatRe == Pat(Phrase(<<("termination" :> 11) @@ ("terminate" :> 9)>>))
AutoRenewRe ==
    Pat(Phrase(<<W({"auto", "automatic", "automatically", "autoally"}),
                 Pre("renew", {"renew", "renews", "renewal"})>>))
NoticeRe ==
    Pat(Phrase(<<Digits, W({"day", "days"}), W({"notice", "prior"})>>))
\* governing\s+law: the second word only has to start with "law"
GoverningLawRe ==
    Pat(Phrase(<<W({"governing"}), Pre("law", {"law", "law:", "laws"})>>))
TerminateNoticeRe ==
    GapPat(Phrase(<<W({"terminate", "cancel"})>>),
           <<Phrase(<<Digits, W({"day", "days"}), W({"notice"})>>)>>)

AutoRenewalWindow == 500
AutoRenewalEvidence == 200
NoticeEvidence == 100
PatternEvidence == 100
ShortNoticeDays == 30

\* a check that looks at the text alone
check_termination_clause_text_only(t, d) ==
    IF ~re_search(TerminatRe, t).ok
    THEN Result(Evidence("literal", "No termination clause found in document",
                         NoPos, NoPos), NoPos, NoPos)
    ELSE NoResult

\* lines 636-654
check_termination_clause(t, d) ==
    IF ~re_search(TerminatRe, t).ok
    THEN Result(Evidence("literal", "No termination clause found in document",
                         NoPos, NoPos), NoPos, NoPos)
    ELSE IF DictTruthy(d) /\ ~Truthy(DictGet(d, "termination"))
    THEN Result(Evidence("literal", "Termination clause not clearly defined",
                         NoPos, NoPos), NoPos, NoPos)
    ELSE NoResult

\* the dict returned with a piece of the text as evidence
Span(st, en) == Result(Evidence("slice", "", st, en), st, en)

\* lines 679-684 and 688-693: the 200 characters from the renewal phrase on
RenewalSpan(t, st) == Span(st, Min(TextLen(t), st + AutoRenewalEvidence))

\* lines 676-693: the verdict, given the match of the notice regex in the
\* window around the renewal phrase
NoticeVerdict(t, m, window, notice_match) ==
    IF notice_match.ok
    THEN IF NumVal(window[notice_match.ws]) < ShortNoticeDays
         THEN RenewalSpan(t, m.s) ELSE NoResult
    ELSE RenewalSpan(t, m.s)

\* lines 670-674: the search for a notice period in the window
NoticeInWindow(t, m, window) ==
    NoticeVerdict(t, m, window, re_search(NoticeRe, window))

\* lines 668-695, m being the match of the renewal regex
RenewalVerdict(t, m) ==
    IF ~m.ok THEN NoResult
    ELSE NoticeInWindow(t, m, SliceWords(t, Max(0, m.s - AutoRenewalWindow),
                                         m.e + AutoRenewalWindow))

check_auto_renewal(t, d) == RenewalVerdict(t, re_search(AutoRenewRe, t))

\* a check that believes the fact map before it looks at the text
check_governing_law_facts_first(t, d) ==
    IF DictTruthy(d) /\ Truthy(DictGet(d, "governing_law")) THEN NoResult
    ELSE Result(Evidence("literal", "No governing law clause found", NoPos, NoPos),
                NoPos, NoPos)

check_governing_law(t, d) ==
    IF ~re_search(GoverningLawRe, t).ok
    THEN Result(Evidence("literal", "No governing law clause found", NoPos, NoPos),
                NoPos, NoPos)
    ELSE IF DictTruthy(d) /\ ~Truthy(DictGet(d, "governing_law"))
    THEN Result(Evidence("literal", "Governing law not clearly specified",
                         NoPos, NoPos), NoPos, NoPos)
    ELSE NoResult

\* the for-loop over the matches: the first one with fewer than 30 days
RECURSIVE FirstShortNotice(_, _, _)
FirstShortNotice(t, matches, i) ==
    IF i > Len(matches) THEN NoResult
    ELSE IF NumVal(t[matches[i].ts]) < ShortNoticeDays
    THEN Span(matches[i].s, Min(TextLen(t), matches[i].e + NoticeEvidence))
    ELSE FirstShortNotice(t, matches, i + 1)

check_termination_notice(t, d) ==
    FirstShortNotice(t, re_finditer(TerminateNoticeRe, t, 1), 1)

\* getattr(self, rule['check_func'])(text, extracted_data)
CheckFunc(name, t, d) ==
    CASE name = "check_termination_clause" -> check_termination_clause(t, d)
      [] name = "check_auto_renewal" -> check_auto_renewal(t, d)
      [] name = "check_governing_law" -> check_governing_law(t, d)
      [] name = "check_termination_notice" -> check_termination_notice(t, d)
      [] OTHER -> NoResult

Modify == W({"modify", "change", "amend"})

RISK_RULES == <<
    [id |-> "MISSING_TERMINATION", name |-> "Missing Termination Clause",
     severity |-> "high", patterns |-> <<>>,
     check_func |-> "check_termination_clause"],
    [id |-> "UNLIMITED_LIABILITY", name |-> "Unlimited Liability",
     severity |-> "high",
     patterns |-> <<Pat(Phrase(<<W({"unlimited"}), W({"liability"})>>)),
                    GapPat(Phrase(<<W({"no"}), W({"limit", "cap"})>>),
                           <<Phrase(<<W({"liability"})>>)>>)>>,
     check_func |-> None],
    [id |-> "AUTO_RENEWAL", name |-> "Automatic Renewal Without Notice",
     severity |-> "medium", patterns |-> <<AutoRenewRe>>,
     check_func |-> "check_auto_renewal"],
    [id |-> "MISSING_GOVERNING_LAW", name |-> "Missing Governing Law",
     severity |-> "medium", patterns |-> <<>>,
     check_func |-> "check_governing_law"],
    [id |-> "UNILATERAL_MODIFICATION", name |-> "Unilateral Modification Rights",
     severity |-> "high",
     patterns |-> <<GapPat(Phrase(<<W({"may", "can", "shall"}), Modify>>),
                           <<Literal(<<W({"at"}), W({"any"}), W({"time"})>>),
                             Literal(<<W({"without"}), W({"notice"})>>)>>),
                    Pat(Phrase(<<W({"reserve", "reserves"}), W({"the"}),
                                 W({"right"}), W({"to"}), Modify>>))>>,
     check_func |-> None],
    [id |-> "SHORT_NOTICE_TERMINATION", name |-> "Short Notice Period",
     severity |-> "medium", patterns |-> <<TerminateNoticeRe>>,
     check_func |-> "check_termination_notice"],
    [id |-> "BROAD_INDEMNITY", name |-> "Broad Indemnity Clause",
     severity |-> "high",
     patterns |-> <<GapPat(Phrase(<<W({"indemnify"})>>),
                           <<Phrase(<<W({"from"}), W({"any", "all"})>>),
                             Phrase(<<W({"harmless"})>>)>>),
                    Pat(Phrase(<<W({"hold"}), W({"harmless"})>>))>>,
     check_func |-> None],
    [id |-> "NO_WARRANTY", name |-> "No Warranty Disclaimer",
     severity |-> "low",
     patterns |-> <<Pat(Phrase(<<W({"as"}), W({"is"})>>)),
                    Pat(Phrase(<<W({"without"}), W({"warranty"})>>)),
                    Pat(Phrase(<<W({"no"}), W({"warranties"})>>))>>,
     check_func |-> None] >>

Finding(rule, evidence, char_start, char_end) ==
    [finding_type |-> rule.id, severity |-> rule.severity,
     description |-> rule.name, evidence |-> evidence,
     char_start |-> char_start, char_end |-> char_end]

\* lines 600-613: the finding made from a match
PatternFinding(rule, t, match) ==
    Finding(rule,
            Evidence("strip", "", Max(0, match.s - PatternEvidence),
                     Min(TextLen(t), match.e + PatternEvidence)),
            match.s, match.e)

\* lines 599-614: the loop over the matches of one pattern; the break leaves
\* it after the first match
MatchFindings(rule, t, matches) ==
    IF matches = <<>> THEN <<>> ELSE <<PatternFinding(rule, t, matches[1])>>

\* lines 596-614: the loop over the patterns of one rule, from pattern i on
RECURSIVE PatternFindings(_, _, _)
PatternFindings(rule, t, i) ==
    IF i > Len(rule.patterns) THEN <<>>
    ELSE MatchFindings(rule, t, re_finditer(rule.patterns[i], t, 1))
         \o PatternFindings(rule, t, i + 1)

\* lines 621-629: the finding made from the result of a custom check
ResultFindings(rule, result) ==
    IF result.found
    THEN <<Finding(rule, result.evidence, result.char_start, result.char_end)>>
    ELSE <<>>

\* lines 616-629: the custom check of one rule
CustomFindings(rule, t, d) ==
    IF rule.check_func = None THEN <<>>
    ELSE ResultFindings(rule, CheckFunc(rule.check_func, t, d))

\* lines 594-629: the loop over the rules, from rule i on
RECURSIVE RuleFindings(_, _, _, _)
RuleFindings(rules, i, t, d) ==
    IF i > Len(rules) THEN <<>>
    ELSE PatternFindings(rules[i], t, 1) \o CustomFindings(rules[i], t, d)
         \o RuleFindings(rules, i + 1, t, d)

\* severity_weights.get(f.get('severity', 'low'), 5)
SeverityWeight(f) ==
    LET sev == IF "severity" \in DOMAIN f THEN f.severity ELSE "low"
    IN CASE sev = "high" -> 30
         [] sev = "medium" -> 15
         [] sev = "low" -> 5
         [] OTHER -> 5

RECURSIVE SumWeights(_)
SumWeights(fs) == IF fs = <<>> THEN 0 ELSE SeverityWeight(Head(fs)) + SumWeights(Tail(fs))

ScoreCap == 100

\* a score without the cap
calculate_risk_score_uncapped(fs) == SumWeights(fs)

\* lines 750-765 (the floats 0.0 and 100.0 are the integers 0 and 100 here)
calculate_risk_score(fs) ==
    IF fs = <<>> THEN 0 ELSE Min(SumWeights(fs), ScoreCap)

\* lines 631-634: the returned pair
Audited(fs) == [findings |-> fs, risk_score |-> calculate_risk_score(fs)]

\* an audit whose finding list outlives the call
audit_document_accumulating(t, d) ==
    Audited(findings \o RuleFindings(risk_rules, 1, t, d))

\* lines 591-634; reads the class attribute RISK_RULES
audit_document(t, d) == Audited(RuleFindings(risk_rules, 1, t, d))

----------------------------------------------------------------------------
(* Exceptions raised inside audit_document *)

\* int(s) raises ValueError when s has more digits than CPython converts
\* (sys.int_info.default_max_str_digits)
IntMaxDigits == 4300
IntRaises(w) == w \in DOMAIN Digits /\ WLen(w) > IntMaxDigits

\* lines 726-728: the for-loop over the matches reaches a number that int()
\* does not convert before it reaches a notice of fewer than 30 days
RECURSIVE ShortNoticeRaises(_, _, _)
ShortNoticeRaises(t, matches, i) ==
    IF i > Len(matches) THEN FALSE
    ELSE IF IntRaises(t[matches[i].ts]) THEN TRUE
    ELSE IF NumVal(t[matches[i].ts]) < ShortNoticeDays THEN FALSE
    ELSE ShortNoticeRaises(t, matches, i + 1)

\* line 677: the number of the notice period in the window is not converted
NoticeRaises(window, notice_match) ==
    notice_match.ok /\ IntRaises(window[notice_match.ws])

RenewalRaises(t, m) ==
    /\ m.ok
    /\ NoticeRaises(SliceWords(t, Max(0, m.s - AutoRenewalWindow), m.e + AutoRenewalWindow),
                    re_search(NoticeRe, SliceWords(t, Max(0, m.s - AutoRenewalWindow),
                                                   m.e + AutoRenewalWindow)))

\* line 619: check_method(text, extracted_data) raises
CheckRaises(name, t, d) ==
    CASE name = "check_auto_renewal" -> RenewalRaises(t, re_search(AutoRenewRe, t))
      [] name = "check_termination_notice" ->
            ShortNoticeRaises(t, re_finditer(TerminateNoticeRe, t, 1), 1)
      [] OTHER -> FALSE

\* the rules whose custom check raises
RaisingRules(rules, t, d) ==
    {i \in 1..Len(rules) :
        rules[i].check_func # None /\ CheckRaises(rules[i].check_func, t, d)}

----------------------------------------------------------------------------
(* RiskAuditEngine.generate_audit_summary *)

\* the strings returned: kind "none" is no string yet, "no_risk" is "No
\* significant risks identified.", "no_risk_document" is "No significant risks
\* identified in this document.", "counts" is the sentence of line 830 with
\* its six numbers, "llm" is the text of the LLM, "raise" is an exception
Summary(kind, total, high, medium, low, score) ==
    [kind |-> kind, total |-> total, high |-> high, medium |-> medium,
     low |-> low, score |-> score]
NoSummary == Summary("none", 0, 0, 0, 0, 0)

\* sum(1 for f in findings if f.get('severity') == sev)
RECURSIVE SeverityCount(_, _)
SeverityCount(fs, sev) ==
    IF fs = <<>> THEN 0
    ELSE (IF "severity" \in DOMAIN Head(fs) /\ Head(fs).severity = sev THEN 1 ELSE 0)
         + SeverityCount(Tail(fs), sev)

\* lines 823-830
generate_simple_summary(fs, score) ==
    IF fs = <<>> THEN Summary("no_risk", 0, 0, 0, 0, 0)
    ELSE Summary("counts", Len(fs), SeverityCount(fs, "high"),
                 SeverityCount(fs, "medium"), SeverityCount(fs, "low"), score)

\* lines 787-790: f['severity'].upper() and f['description'] raise KeyError
\* for a finding without the key
FindingsTextRaises(fs) ==
    \E i \in 1..Len(fs) : {"severity", "description"} \ DOMAIN fs[i] # {}

\* a summary that lets the failure of the LLM call through
generate_audit_summary_unguarded(client, fs, score) ==
    IF client = "unavailable" THEN generate_simple_summary(fs, score)
    ELSE IF fs = <<>> THEN Summary("no_risk_document", 0, 0, 0, 0, 0)
    ELSE IF FindingsTextRaises(fs) THEN Summary("raise", 0, 0, 0, 0, 0)
    ELSE IF client = "fails" THEN Summary("raise", 0, 0, 0, 0, 0)
    ELSE Summary("llm", 0, 0, 0, 0, 0)

\* lines 781-815; client is the state of the LLM client
generate_audit_summary(client, fs, score) ==
    IF client = "unavailable" THEN generate_simple_summary(fs, score)
    ELSE IF fs = <<>> THEN Summary("no_risk_document", 0, 0, 0, 0, 0)
    ELSE IF FindingsTextRaises(fs) THEN Summary("raise", 0, 0, 0, 0, 0)
    ELSE IF client = "fails" THEN generate_simple_summary(fs, score)
    ELSE Summary("llm", 0, 0, 0, 0, 0)

----------------------------------------------------------------------------
(* ContractExtractor.extract_auto_renewal *)

\* the words of t from word p on
WordsFrom(t, p) == SubSeq(t, p, Len(t))

\* lines 309-311, notice_match being the match of the notice regex in t
RenewalAnswer(t, notice_match) ==
    IF notice_match.ok
    THEN "Yes, " \o t[notice_match.ws] \o " days notice required"
    ELSE "Yes"

\* the answer when the notice period is looked for behind word p only
AnswerBehind(t, p) == RenewalAnswer(WordsFrom(t, p), re_search(NoticeRe, WordsFrom(t, p)))

\* an extractor that looks for the notice period behind the renewal phrase only
extract_auto_renewal_notice_after(t) ==
    IF re_search(AutoRenewRe, t).ok
    THEN AnswerBehind(t, re_search(AutoRenewRe, t).we + 1)
    ELSE "No"

\* lines 302-313; group(1) is the number as written in the text
extract_auto_renewal(t) ==
    IF re_search(AutoRenewRe, t).ok
    THEN RenewalAnswer(t, re_search(NoticeRe, t))
    ELSE "No"

----------------------------------------------------------------------------
(* ContractExtractor.extract_liability_cap *)

\* the map returned: {} or {"amount": ..., "currency": ...}
NoCap == [found |-> FALSE, amount |-> 0, currency |-> None]
Cap(amount, currency) == [found |-> TRUE, amount |-> amount, currency |-> currency]

\* (?:limited|capped|exceed) and (?:USD|EUR|\$|€|£) under re.IGNORECASE
CapCues == {"limited", "capped", "exceed"}
AmountMarkers == {"usd", "eur", "$", "(euro)", "(pound)"}

\* (\d+(?:,\d{3})*(?:\.\d{2})?): the amount words of the model, and
\* float(amount_str) of the word without its commas
Amounts == {"500", "100,000"}
float(w) == CASE w = "500" -> 500 [] w = "100,000" -> 100000

\* float() raises ValueError on no string that the amount group can capture
FloatRaises(w) == w \notin Amounts

\* no line feed among the words i..j (the dot of .*? does not match it)
OneLine(t, i, j) == \A k \in i..j : t[k] # "LF"

\* marker at word r, then \s*, then the amount: the word of the amount (0: none)
AmountBehind(t, r) ==
    IF /\ Lower(t[r]) \in AmountMarkers
       /\ SkipWs(t, r + 1) <= Len(t)
       /\ t[SkipWs(t, r + 1)] \in Amounts
    THEN SkipWs(t, r + 1) ELSE 0

\* a match of one of the two patterns: the words first..last are group(0),
\* the word amount is group(1)
CapMatch(first, last, amount) ==
    [ok |-> TRUE, first |-> first, last |-> last, amount |-> amount]
NoCapMatch == [ok |-> FALSE, first |-> 0, last |-> 0, amount |-> 0]

\* line 273: liability.*?(cue).*?(marker)\s*(amount) from word p on; both
\* gaps are lazy, so the nearest cue and then the nearest marker are taken
CueWords(t, p) ==
    {q \in (p + 1)..Len(t) :
        /\ Lower(t[q]) \in CapCues
        /\ OneLine(t, p, q)
        /\ \E r \in (q + 1)..Len(t) : OneLine(t, q, r) /\ AmountBehind(t, r) > 0}

MarkerWords(t, q) ==
    {r \in (q + 1)..Len(t) : OneLine(t, q, r) /\ AmountBehind(t, r) > 0}

CapStarts1(t) ==
    {p \in 1..Len(t) : Lower(t[p]) = "liability" /\ CueWords(t, p) # {}}

CapMatchAt1(t, p, r) == CapMatch(p, AmountBehind(t, r), AmountBehind(t, r))

CapSearch1(t) ==
    IF CapStarts1(t) = {} THEN NoCapMatch
    ELSE CapMatchAt1(t, SetMin(CapStarts1(t)),
                     SetMin(MarkerWords(t, SetMin(CueWords(t, SetMin(CapStarts1(t)))))))

\* line 274: (marker)\s*(amount).*?liability from word r on
LiabilityWords(t, a) ==
    {j \in (a + 1)..Len(t) : Lower(t[j]) = "liability" /\ OneLine(t, a, j)}

CapStarts2(t) ==
    {r \in 1..Len(t) :
        AmountBehind(t, r) > 0 /\ LiabilityWords(t, AmountBehind(t, r)) # {}}

CapMatchAt2(t, r) ==
    CapMatch(r, SetMin(LiabilityWords(t, AmountBehind(t, r))), AmountBehind(t, r))

CapSearch2(t) ==
    IF CapStarts2(t) = {} THEN NoCapMatch
    ELSE CapMatchAt2(t, SetMin(CapStarts2(t)))

\* line 284: re.search(r'(USD|EUR|GBP|\$|€|£)', match.group(0)), which is
\* matched with the case as written
CurrencyMarkers == {"USD", "EUR", "GBP", "$", "(euro)", "(pound)"}

CurrencyWords(t, m) == {k \in m.first..m.last : t[k] \in CurrencyMarkers}

\* lines 285-291
Currency(t, m) ==
    IF CurrencyWords(t, m) = {} THEN "USD"
    ELSE CASE t[SetMin(CurrencyWords(t, m))] \in {"(euro)", "EUR"} -> "EUR"
           [] t[SetMin(CurrencyWords(t, m))] \in {"(pound)", "GBP"} -> "GBP"
           [] OTHER -> "USD"

\* a loop that a failed parse ends
CapCascade_aborting(t, m1, m2) ==
    IF m1.ok
    THEN IF FloatRaises(t[m1.amount]) THEN NoCap
         ELSE Cap(float(t[m1.amount]), Currency(t, m1))
    ELSE IF m2.ok /\ ~FloatRaises(t[m2.amount])
    THEN Cap(float(t[m2.amount]), Currency(t, m2))
    ELSE NoCap

\* lines 277-297: the loop over the two patterns; m1 and m2 are their matches
CapCascade(t, m1, m2) ==
    IF m1.ok /\ ~FloatRaises(t[m1.amount])
    THEN Cap(float(t[m1.amount]), Currency(t, m1))
    ELSE IF m2.ok /\ ~FloatRaises(t[m2.amount])
    THEN Cap(float(t[m2.amount]), Currency(t, m2))
    ELSE NoCap

extract_liability_cap(t) == CapCascade(t, CapSearch1(t), CapSearch2(t))

----------------------------------------------------------------------------
(* ContractExtractor.extract_parties *)

PartyWindow == 2000
PartyLimit == 5
PartyMinLen == 3

\* text[:2000]: the words that begin inside the window, and the number of
\* characters of the last of them that lie inside it
CutWords(t, n) == {i \in 1..Len(t) : Off(t, i) < n}
Cut(t, n) ==
    [w |-> SubSeq(t, 1, Cardinality(CutWords(t, n))),
     k |-> IF CutWords(t, n) = {} THEN 0
           ELSE Min(WLen(t[Cardinality(CutWords(t, n))]),
                    n - Off(t, Cardinality(CutWords(t, n))))]

\* the characters of word i of the cut text ct, and whether it is whole
Kept(ct, i) == IF i = Len(ct.w) THEN ct.k ELSE WLen(ct.w[i])
Whole(ct, i) == Kept(ct, i) = WLen(ct.w[i])

\* position of the first character of a word outside [A-Za-z\s&,\.] (0: none)
ClassBad(w) ==
    CASE w = "Hooli9" -> 6
      [] w \in {"Client:", "Vendor:"} -> 7
      [] w = "Contractor:" -> 11
      [] w = "A:" -> 2
      [] w = "FILL" -> 1
      [] OTHER -> 0

\* the characters of word i that are inside the cut text are of the class
InClass(ct, i) ==
    ClassBad(ct.w[i]) = 0 \/ ClassBad(ct.w[i]) > Kept(ct, i)

\* [A-Z] under re.IGNORECASE: the word begins with a letter
StartsLetter(w) == w \notin {"LF", "FILL", "&"}

\* trailing characters of a word that .strip(',').strip('.') removes
Punct(w) == IF w \in {"Initech,", "Inc."} THEN 1 ELSE 0

\* lines 206-209; "and": the capture ends before \s+(?:and|&), "eol": it ends
\* before (?:\n|$)
PartyPatterns == <<
    [head |-> Phrase(<<W({"between"})>>), kind |-> "and"],
    [head |-> Literal(<<W({"entered"}), W({"into"}), W({"by"})>>), kind |-> "and"],
    [head |-> Phrase(<<W({"party"}), W({"a:"})>>), kind |-> "eol"],
    [head |-> Phrase(<<W({"client:", "vendor:", "contractor:"})>>), kind |-> "eol"] >>

\* a capture: the words c..r of the cut text; the search goes on at word next
NoCapture == [ok |-> FALSE, c |-> 0, r |-> 0, next |-> 0]
Capture(c, r, next) == [ok |-> TRUE, c |-> c, r |-> r, next |-> next]

\* the last word in c..q that is not a line feed
LastInk(w, c, q) == CHOOSE r \in c..q : w[r] # "LF" /\ \A j \in (r + 1)..q : w[j] = "LF"

\* the words behind c that begin with and or & (the lazy capture ends before
\* the nearest one)
Terminators(ct, c) ==
    {q \in (c + 1)..Len(ct.w) : Lower(ct.w[q]) \in {"and", "&"} /\ Whole(ct, q)}

\* the first line feed behind word c, or the end of the cut text
LineEnd(ct, c) ==
    SetMin({e \in (c + 1)..(Len(ct.w) + 1) : e = Len(ct.w) + 1 \/ ct.w[e] = "LF"})

\* the capture that begins at word c and must end before word q
CaptureUpTo(ct, c, q) ==
    IF \A i \in c..(q - 1) : InClass(ct, i)
    THEN Capture(c, LastInk(ct.w, c, q - 1), q + 1)
    ELSE NoCapture

\* the capture of pattern pat behind its head, which ends at word he
CaptureBehind(ct, pat, c) ==
    IF c > Len(ct.w) \/ ~StartsLetter(ct.w[c]) THEN NoCapture
    ELSE IF pat.kind = "and"
    THEN IF Terminators(ct, c) = {} THEN NoCapture
         ELSE CaptureUpTo(ct, c, SetMin(Terminators(ct, c)))
    ELSE CaptureUpTo(ct, c, LineEnd(ct, c))

\* the match of pat that begins at word p, its head ending at word he
PartyMatchAt(ct, pat, he) ==
    IF he = 0 \/ ~Whole(ct, he) THEN NoCapture
    ELSE CaptureBehind(ct, pat, SkipWs(ct.w, he + 1))

\* line 215 and 216: party = match.strip().strip(',').strip('.'); the party is
\* the words of the capture, of the last of which the first `last` characters
\* remain; it is kept if it has more than 3 characters
Trimmed(ct, m) == Kept(ct, m.r) - (IF Whole(ct, m.r) THEN Punct(ct.w[m.r]) ELSE 0)

Party(ct, m) == [words |-> SubSeq(ct.w, m.c, m.r), last |-> Trimmed(ct, m)]

PartyLen(ct, m) == Off(ct.w, m.r) - Off(ct.w, m.c) + Trimmed(ct, m)

Parties(ct, m) ==
    IF PartyLen(ct, m) > PartyMinLen THEN <<Party(ct, m)>> ELSE <<>>

\* lines 213-217: re.findall of one pattern from word p on, m being the match
\* at word p
RECURSIVE findall(_, _, _)
RECURSIVE FoundFrom(_, _, _, _)
FoundFrom(ct, pat, p, m) ==
    IF m.ok THEN Parties(ct, m) \o findall(ct, pat, m.next)
    ELSE findall(ct, pat, p + 1)

findall(ct, pat, p) ==
    IF p > Len(ct.w) THEN <<>>
    ELSE FoundFrom(ct, pat, p, PartyMatchAt(ct, pat, PhraseEnd(pat.head, 1, ct.w, p)))

\* lines 212-217: the loop over the patterns, from pattern i on
RECURSIVE party_candidates(_, _)
party_candidates(ct, i) ==
    IF i > Len(PartyPatterns) THEN <<>>
    ELSE findall(ct, PartyPatterns[i], 1) \o party_candidates(ct, i + 1)

\* list(set(parties)): the distinct parties in the order of their hash slots.
\* The hash of a string depends on the hash seed of the process; here the seed
\* is a permutation of the slots, a party falls into the slot of its length,
\* parties of one slot stand in the order of their insertion.
NumSlots == 3
Seeds == Permutations(1..NumSlots)
DefaultSeed == [i \in 1..NumSlots |-> i]
Slot(seed, party) == seed[((Len(party.words[1]) + party.last) % NumSlots) + 1]

FirstAt(s, i) == \A j \in 1..(i - 1) : s[j] # s[i]

RECURSIVE SlotOrder(_, _, _)
SlotOrder(seed, s, slot) ==
    IF slot > NumSlots THEN <<>>
    ELSE SelectSeq([i \in 1..Len(s) |-> [party |-> s[i], keep |-> FirstAt(s, i)]],
                   LAMBDA x : x.keep /\ Slot(seed, x.party) = slot)
         \o SlotOrder(seed, s, slot + 1)

list_set(seed, s) ==
    [i \in 1..Len(SlotOrder(seed, s, 1)) |-> SlotOrder(seed, s, 1)[i].party]

\* an extractor that searches the whole text
extract_parties_uncut(seed, t) ==
    PySlice(list_set(seed, party_candidates(Cut(t, TextLen(t) + 1), 1)), 0, PartyLimit)

\* lines 202-219
extract_parties(seed, t) ==
    PySlice(list_set(seed, party_candidates(Cut(t, PartyWindow), 1)), 0, PartyLimit)

----------------------------------------------------------------------------
(* ContractExtractor.extract_dates, extract_term, extract_governing_law *)

\* a returned string: the words of the capture, of the last of which the first
\* `last` characters belong to it; None is NoField
NoField == [found |-> FALSE, words |-> <<>>, last |-> 0]
Field(words, last) == [found |-> TRUE, words |-> words, last |-> last]

\* the greatest element of a set of numbers
SetMax(S) == CHOOSE x \in S : \A y \in S : x >= y

\* the string of the words of t from word c to word r, the last one whole
Words(t, c, r) == Field(SubSeq(t, c, r), WLen(t[r]))

\* match.group(1) of a match whose group is its tail
Group1(t, m) == Field(SubSeq(t, m.ts, m.we), m.e - Off(t, m.we))

\* of two matches the one that starts further left
Leftmost(m1, m2) ==
    IF ~m1.ok THEN m2
    ELSE IF ~m2.ok THEN m1
    ELSE IF m1.ws <= m2.ws THEN m1 ELSE m2

\* a head phrase followed by white space and a tail phrase: the match that
\* starts at word p, the head ending at word he
DirectTail(t, p, q, tl) ==
    IF PhraseEnd(tl, 1, t, q) = 0 THEN NoMatch ELSE TailMatch(t, p, q, tl)

DirectAt(head, tl, t, p, he) ==
    IF he = 0 THEN NoMatch
    ELSE IF PhraseEndChar(head, t, he) # Off(t, he) + WLen(t[he]) THEN NoMatch
    ELSE DirectTail(t, p, SkipWs(t, he + 1), tl)

DirectStarts(head, tl, t) ==
    {p \in 1..Len(t) : DirectAt(head, tl, t, p, PhraseEnd(head, 1, t, p)).ok}

DirectSearch(head, tl, t) ==
    IF DirectStarts(head, tl, t) = {} THEN NoMatch
    ELSE DirectAt(head, tl, t, SetMin(DirectStarts(head, tl, t)),
                  PhraseEnd(head, 1, t, SetMin(DirectStarts(head, tl, t))))

\* a head phrase followed by \s*([^\n]+): the string returned after .strip()
\* for the first head, which ends at word he (0: there is no head).  The
\* group is the rest of the line on which the first word behind the head
\* stands; it is white space, and the string empty, when no word follows.
RestOfLine(t, he) ==
    IF he = 0 \/ he = Len(t) THEN NoField
    ELSE IF SkipWs(t, he + 1) > Len(t) THEN Field(<<>>, 0)
    ELSE Words(t, SkipWs(t, he + 1),
               SetMin({e \in SkipWs(t, he + 1)..Len(t) :
                          e = Len(t) \/ t[e + 1] = "LF"}))

HeadEnds(head, t) ==
    {PhraseEnd(head, 1, t, p) : p \in {q \in 1..Len(t) : PhraseEnd(head, 1, t, q) > 0}}

FirstHead(head, t) == IF HeadEnds(head, t) = {} THEN 0 ELSE SetMin(HeadEnds(head, t))

----------------------------------------------------------------------------
(* extract_dates *)

DateWindow == 2000

\* (?:effective|dated?|entered into)
DateCue == [w \in {"effective", "dated", "date:"} |-> IF w = "date:" THEN 4 ELSE Len(w)]
EnteredInto == Literal(<<W({"entered"}), W({"into"})>>)

\* \d{1,2}[\/\-]\d{1,2}[\/\-]\d{2,4} and [A-Z][a-z]+\s+\d{1,2},?\s+\d{4}; under
\* re.IGNORECASE [A-Z][a-z]+ is any word of letters
NumericDate == Phrase(<<W({"1/2/2024"})>>)
LetterWords ==
    {"january", "march", "effective", "dated", "entered", "into", "on", "signed"}
WrittenDate == Phrase(<<W(LetterWords), W({"5,"}), W({"2024"})>>)

\* lines 225-229
DatePatterns == <<
    <<GapPat(Phrase(<<DateCue>>), <<NumericDate>>), GapPat(EnteredInto, <<NumericDate>>)>>,
    <<GapPat(Phrase(<<DateCue>>), <<WrittenDate>>), GapPat(EnteredInto, <<WrittenDate>>)>> >>
EffectiveDate == Literal(<<W({"effective"}), W({"date:"})>>)

\* re.search of a pattern whose first part is one of two alternatives
SearchEither(alts, t) == Leftmost(re_search(alts[1], t), re_search(alts[2], t))

\* lines 231-236: the loop over the patterns; m1, m2, m3 are their matches
DateCascade(t, m1, m2, m3) ==
    IF m1.ok THEN Group1(t, m1)
    ELSE IF m2.ok THEN Group1(t, m2)
    ELSE IF m3.ok THEN Group1(t, m3)
    ELSE NoField

DatesIn(t) ==
    DateCascade(t, SearchEither(DatePatterns[1], t), SearchEither(DatePatterns[2], t),
                DirectSearch(EffectiveDate, WrittenDate, t))

extract_dates(t) == DatesIn(SliceWords(t, 0, DateWindow))

----------------------------------------------------------------------------
(* extract_term *)

TermWindow == 3000

\* (?:term|duration) and (\d+\s+(?:year|month|day)s?)
TermCue ==
    [w \in {"term", "term:", "terminate", "duration"} |->
        IF w = "duration" THEN 8 ELSE 4]
Period == Phrase(<<W({"2", "10", "12", "30"}),
                   W({"day", "days", "month", "months", "year", "years"})>>)
ForAPeriodOf == Literal(<<W({"for"}), W({"a"}), W({"period"}), W({"of"})>>)
TermColon == Phrase(<<W({"term:"})>>)

\* lines 241-245
TermPattern1 == GapPat(Phrase(<<TermCue>>), <<Period>>)

\* lines 247-252: the loop over the patterns
TermCascade(t, m1, m2, rest) ==
    IF m1.ok THEN Group1(t, m1)
    ELSE IF m2.ok THEN Group1(t, m2)
    ELSE rest

TermIn(t) ==
    TermCascade(t, re_search(TermPattern1, t), DirectSearch(ForAPeriodOf, Period, t),
                RestOfLine(t, FirstHead(TermColon, t)))

extract_term(t) == TermIn(SliceWords(t, 0, TermWindow))

----------------------------------------------------------------------------
(* extract_governing_law *)

\* the number of letters a word begins with
AlphaLen(w) ==
    CASE w = "LF" -> 0
      [] w = "Delaware." -> 8
      [] w = "Law:" -> 3
      [] OTHER -> WLen(w)

\* [A-Z][a-z]+ under re.IGNORECASE matches the word as a whole
IsAlpha(w) == AlphaLen(w) = WLen(w) /\ WLen(w) >= 2

GovernedBy == Literal(<<W({"governed"}), W({"by"})>>)
LawsOf == Literal(<<W({"laws"}), W({"of"})>>)
LawWords == {"law", "laws", "law:"}
GoverningLaw == Literal(<<W({"governing"}), Pre("law", LawWords)>>)
GoverningLawColon == Literal(<<W({"governing"}), W({"law:"})>>)

\* ([A-Z][a-z]+(?:\s+[A-Z][a-z]+)*) from word c on: the last word of the
\* greedy group
RECURSIVE AlphaRun(_, _)
AlphaRun(t, c) ==
    IF /\ IsAlpha(t[c])
       /\ SkipWs(t, c + 1) <= Len(t)
       /\ AlphaLen(t[SkipWs(t, c + 1)]) >= 2
    THEN AlphaRun(t, SkipWs(t, c + 1))
    ELSE c

\* line 257: the group behind the match m of governed by.*?laws of
LawsOfGroup(t, m, c) ==
    IF ~m.ok \/ c > Len(t) THEN NoField
    ELSE IF AlphaLen(t[c]) < 2 THEN NoField
    ELSE Field(SubSeq(t, c, AlphaRun(t, c)), AlphaLen(t[AlphaRun(t, c)]))

LawPattern1(t, m) == LawsOfGroup(t, m, SkipWs(t, m.we + 1))

\* line 258: the last words r at which the group that begins at word q can
\* end: words of letters up to r, then white space and a word that begins
\* with law
LawGroupEnds(t, q) ==
    {r \in q..Len(t) :
        /\ t[r] # "LF"
        /\ \A i \in q..r : t[i] = "LF" \/ IsAlpha(t[i])
        /\ SkipWs(t, r + 1) <= Len(t)
        /\ Lower(t[SkipWs(t, r + 1)]) \in LawWords}

\* the words behind the head (which ends at word he) at which the group can
\* begin: the lazy gap holds no line feed
LawGroupStarts(t, he) ==
    {q \in (he + 1)..Len(t) :
        /\ \A i \in (he + 1)..q : t[i] # "LF"
        /\ LawGroupEnds(t, q) # {}}

LawGroup(t, Q) ==
    IF Q = {} THEN NoField
    ELSE Words(t, SetMin(Q), SetMax(LawGroupEnds(t, SetMin(Q))))

\* the heads of governing law behind which the group matches
LawHeads(t) ==
    {he \in HeadEnds(GoverningLaw, t) : LawGroupStarts(t, he) # {}}

LawPattern2(t) ==
    IF LawHeads(t) = {} THEN NoField
    ELSE LawGroup(t, LawGroupStarts(t, SetMin(LawHeads(t))))

\* lines 261-266: the loop over the patterns; g1, g2, g3 are their groups
LawCascade(g1, g2, g3) ==
    IF g1.found THEN g1 ELSE IF g2.found THEN g2 ELSE g3

extract_governing_law(t) ==
    LawCascade(LawPattern1(t, re_search(GapPat(GovernedBy, <<LawsOf>>), t)),
               LawPattern2(t),
               RestOfLine(t, FirstHead(GoverningLawColon, t)))

----------------------------------------------------------------------------
(* RAGEngine.semantic_search *)

\* queries and chunk texts are sequences of characters
Blank == {" "}

\* str.lower()
LowerChar(c) == CASE c = "A" -> "a" [] c = "B" -> "b" [] OTHER -> c
lower(s) == [i \in 1..Len(s) |-> LowerChar(s[i])]

\* str.split(): the maximal runs of non-blank characters, from position i on,
\* w being the run collected so far
RECURSIVE split(_, _, _)
split(s, i, w) ==
    IF i > Len(s) THEN (IF w = <<>> THEN <<>> ELSE <<w>>)
    ELSE IF s[i] \in Blank
    THEN (IF w = <<>> THEN <<>> ELSE <<w>>) \o split(s, i + 1, <<>>)
    ELSE split(s, i + 1, Append(w, s[i]))

\* set(list)
ToSet(s) == {s[i] : i \in 1..Len(s)}

\* line 349: query_words = set(query.lower().split())
query_words(q) == ToSet(split(lower(q), 1, <<>>))

\* word in text: the substring test of str
In(word, t) ==
    \E k \in 0..(Len(t) - Len(word)) : SubSeq(t, k + 1, k + Len(word)) = word

\* a score that counts every occurrence of every word of the query
relevance_score_frequency(q, chunk) ==
    LET t == lower(chunk.text_content)
        ws == split(lower(q), 1, <<>>)
    IN Cardinality({<<i, k>> \in (1..Len(ws)) \X (0..Len(t)) :
                       /\ k + Len(ws[i]) <= Len(t)
                       /\ SubSeq(t, k + 1, k + Len(ws[i])) = ws[i]})

\* lines 353-355: score = sum(1 for word in query_words if word in text)
relevance_score(q, chunk) ==
    LET t == lower(chunk.text_content)
    IN Cardinality({word \in query_words(q) : In(word, t)})

\* lines 351-360: the chunks with a positive score, in corpus order, each with
\* its score added
RECURSIVE scored_chunks(_, _, _)
scored_chunks(q, cs, i) ==
    IF i > Len(cs) THEN <<>>
    ELSE LET score == relevance_score(q, cs[i])
         IN (IF score > 0
             THEN <<[chunk_id |-> cs[i].chunk_id,
                     text_content |-> cs[i].text_content,
                     relevance_score |-> score]>>
             ELSE <<>>) \o scored_chunks(q, cs, i + 1)

\* an insertion that puts x before the records of equal score
InsertBeforeTies(sorted, x) ==
    LET n == Cardinality({i \in 1..Len(sorted) :
                             sorted[i].relevance_score > x.relevance_score})
    IN SubSeq(sorted, 1, n) \o <<x>> \o SubSeq(sorted, n + 1, Len(sorted))

\* x put into a list sorted by descending score, behind the records of equal
\* score
InsertSorted(sorted, x) ==
    LET n == Cardinality({i \in 1..Len(sorted) :
                             sorted[i].relevance_score >= x.relevance_score})
    IN SubSeq(sorted, 1, n) \o <<x>> \o SubSeq(sorted, n + 1, Len(sorted))

\* line 363: list.sort(key=relevance_score, reverse=True), a stable sort
RECURSIVE sort_reverse(_)
sort_reverse(s) ==
    IF s = <<>> THEN <<>>
    ELSE InsertSorted(sort_reverse(SubSeq(s, 1, Len(s) - 1)), s[Len(s)])

\* a search that returns the last top_k records of the ranking
semantic_search_tail(q, cs, k) ==
    LET ranked == sort_reverse(scored_chunks(q, cs, 1))
    IN PySlice(ranked, Len(ranked) - Min(k, Len(ranked)), Len(ranked))

\* lines 349-364
semantic_search(q, cs, k) ==
    PySlice(sort_reverse(scored_chunks(q, cs, 1)), 0, k)

----------------------------------------------------------------------------
(* RAGEngine.generate_answer and the handler of POST /ask *)

\* a response: the status code, and for 200 the fields of AskResponse; the
\* confidence is counted in hundredths
NoResponse == [status |-> 0, answer |-> None, citations |-> <<>>, confidence |-> 0]
Failure(status, detail) ==
    [status |-> status, answer |-> detail, citations |-> <<>>, confidence |-> 0]
AskResponse(answer, citations, confidence) ==
    [status |-> 200, answer |-> answer, citations |-> citations,
     confidence |-> confidence]

\* the pair returned by generate_answer; kind "raise" is an exception
Answer(answer, confidence) == [answer |-> answer, confidence |-> confidence]

\* a generate_answer that lets the failure of the LLM call through
generate_answer_unguarded(client, context_chunks) ==
    IF client = "unavailable" THEN Answer("OpenAI API not configured", 0)
    ELSE IF context_chunks = <<>> THEN Answer("No relevant information found", 0)
    ELSE IF client = "fails" THEN Answer("raise", 0)
    ELSE Answer("llm", Min(50 + Len(context_chunks) * 10, 95))

\* utils.py lines 385-430
generate_answer(client, context_chunks) ==
    IF client = "unavailable" THEN Answer("OpenAI API not configured", 0)
    ELSE IF context_chunks = <<>> THEN Answer("No relevant information found", 0)
    ELSE IF client = "fails" THEN Answer("Error generating answer", 0)
    ELSE Answer("llm", Min(50 + Len(context_chunks) * 10, 95))

CitationLimit == 5
ExcerptLen == 200

\* api.py lines 409-421: the citation of a chunk
Citation(chunk) ==
    [chunk_id |-> chunk.chunk_id,
     text_excerpt |-> IF Len(chunk.text_content) > ExcerptLen
                      THEN SubSeq(chunk.text_content, 1, ExcerptLen) \o <<".", ".", ".">>
                      ELSE chunk.text_content]

Citations(relevant_chunks) ==
    [i \in 1..Len(PySlice(relevant_chunks, 0, CitationLimit)) |->
        Citation(relevant_chunks[i])]

\* api.py line 338: not request.question or not request.question.strip()
Question400(q) == \A i \in 1..Len(q) : q[i] \in Blank

\* api.py lines 401-430: the answer and the citations of the chunks found; an
\* exception that leaves the handler is answered with 500
Answered(relevant_chunks, a) ==
    IF a.answer = "raise" THEN Failure(500, "Internal Server Error")
    ELSE AskResponse(a.answer, Citations(relevant_chunks), a.confidence)

\* api.py lines 387-399
AskFound(client, relevant_chunks) ==
    IF relevant_chunks = <<>>
    THEN AskResponse("I couldn't find relevant information", <<>>, 0)
    ELSE Answered(relevant_chunks, generate_answer(client, relevant_chunks))

\* api.py lines 338-430, all_chunks being the chunks of the documents
ask_question(client, q, all_chunks, max_results) ==
    IF Question400(q) THEN Failure(400, "Question cannot be empty")
    ELSE IF all_chunks = <<>> THEN Failure(400, "No text content available")
    ELSE AskFound(client, semantic_search(q, all_chunks, max_results))

----------------------------------------------------------------------------
(* The database (models.py, crud.py) and the handlers of api.py.  A handler
   is one step: its reads and writes of the database are not interleaved with
   those of another request. *)

\* the uuids create_document hands out, and one identifier it never hands out
DocIds == {"d1", "d2"}
MissingId == "dx"
RequestIds == DocIds \cup {MissingId}

HTTPException(status_code, detail) == [status |-> status_code, detail |-> detail]
\* api.py lines 139-143, 303-307, 558-562
NotFound(document_id) ==
    HTTPException(404, <<"Document with ID", document_id, "not found">>)
\* api.py lines 154-158, 595-599
NoContent(document_id) ==
    HTTPException(400, <<"No text content found for document", document_id>>)

\* str.strip() of a text of words: the line feeds at its ends go
StripWords(t) ==
    IF \A i \in 1..Len(t) : t[i] = "LF" THEN <<>>
    ELSE SubSeq(t, SetMin({i \in 1..Len(t) : t[i] # "LF"}),
                   SetMax({i \in 1..Len(t) : t[i] # "LF"}))

\* api.py line 82 and utils.py lines 88-119: a text of at most
\* chunk_size - chunk_overlap = 800 characters makes one chunk, or none if it
\* is blank
chunk_words(t) ==
    IF StripWords(t) = <<>> THEN <<>> ELSE <<StripWords(t)>>

\* the rows of document_chunks of one document, in chunk_index order
\* (crud.py lines 71-75)
get_document_chunks(rows, document_id) ==
    SelectSeq(rows, LAMBDA r : r.document_id = document_id)

\* api.py lines 160, 601: "\n".join of the chunk texts
RECURSIVE JoinLines(_)
JoinLines(rows) ==
    IF rows = <<>> THEN <<>>
    ELSE IF Len(rows) = 1 THEN rows[1].text_content
    ELSE rows[1].text_content \o <<"LF">> \o JoinLines(Tail(rows))

\* api.py lines 214-230, _extract_section: the first line holding the keyword
\* and followed by a line feed, with up to five more lines that end in a line
\* feed, stripped.  The texts followed are shorter than max_length.
SectionLines == 5
Holding(keyword) == {w \in {"termination", "cancellation"} : w = keyword}
LineStarts(t) == {i \in 1..Len(t) : t[i] # "LF" /\ (i = 1 \/ t[i - 1] = "LF")}
LineFeeds(t, i) == {j \in i..Len(t) : t[j] = "LF"}
KeywordLines(t, keyword) ==
    {i \in LineStarts(t) :
        /\ LineFeeds(t, i) # {}
        /\ \E j \in i..SetMin(LineFeeds(t, i)) : Lower(t[j]) \in Holding(keyword)}
\* the line feed that ends the n-th line from word i on, as far as there is one
RECURSIVE SectionEnd(_, _, _)
SectionEnd(t, i, n) ==
    IF n = 0 \/ LineFeeds(t, i + 1) = {} THEN i
    ELSE SectionEnd(t, SetMin(LineFeeds(t, i + 1)), n - 1)
SectionAt(t, i) ==
    StripWords(SubSeq(t, i, SectionEnd(t, SetMin(LineFeeds(t, i)), SectionLines)))
RECURSIVE extract_section(_, _)
extract_section(t, keywords) ==
    IF keywords = <<>> THEN <<>>
    ELSE IF KeywordLines(t, Head(keywords)) # {}
    THEN SectionAt(t, SetMin(KeywordLines(t, Head(keywords))))
    ELSE extract_section(t, Tail(keywords))

\* api.py lines 164-191: the extraction data of a text (payment_terms,
\* confidentiality and indemnity are sections cut like termination and are
\* not followed; signatories is always empty)
ExtractionData(seed, full_text) ==
    [parties |-> extract_parties(seed, full_text),
     effective_date |-> extract_dates(full_text),
     term |-> extract_term(full_text),
     governing_law |-> extract_governing_law(full_text),
     termination |-> extract_section(full_text, <<"termination", "cancellation">>),
     auto_renewal |-> extract_auto_renewal(full_text),
     liability_cap |-> extract_liability_cap(full_text)]

\* a row of extracted_data; the confidence is counted in hundredths
RuleBasedConfidence == 70
ExtractedRow(document_id, data, extraction_method, confidence_score) ==
    [document_id |-> document_id, data |-> data,
     extraction_method |-> extraction_method,
     confidence_score |-> confidence_score]

\* crud.py lines 115-119: the position of the first row of the document, or 0
get_extracted_data(rows, document_id) ==
    IF \E i \in 1..Len(rows) : rows[i].document_id = document_id
    THEN SetMin({i \in 1..Len(rows) : rows[i].document_id = document_id})
    ELSE 0

\* crud.py lines 78-112: the row of the document is overwritten if there is
\* one, and added otherwise
create_extracted_data(rows, document_id, data, extraction_method, confidence_score) ==
    IF get_extracted_data(rows, document_id) # 0
    THEN [rows EXCEPT ![get_extracted_data(rows, document_id)] =
              ExtractedRow(document_id, data, extraction_method, confidence_score)]
    ELSE Append(rows, ExtractedRow(document_id, data, extraction_method,
                                   confidence_score))

\* api.py lines 233-269, _format_extraction_response
ExtractResponse(document_id, row) ==
    [status |-> 200, document_id |-> document_id,
     parties |-> row.data.parties,
     effective_date |-> row.data.effective_date,
     term |-> row.data.term,
     governing_law |-> row.data.governing_law,
     termination |-> row.data.termination,
     auto_renewal |-> row.data.auto_renewal,
     liability_cap |->
         IF row.data.liability_cap.found /\ row.data.liability_cap.amount # 0
         THEN row.data.liability_cap ELSE NoCap,
     extraction_method |-> row.extraction_method,
     confidence_score |-> row.confidence_score]

\* what a handler leaves behind: the table it writes and its response
Outcome(rows, resp) == [rows |-> rows, response |-> resp]

\* lines 160-204 of the handler: the extraction is computed and stored
ExtractFresh(seed, document_id, chunk_rows, rows) ==
    Outcome(create_extracted_data(rows, document_id,
                ExtractionData(seed, JoinLines(chunk_rows)),
                "rule-based", RuleBasedConfidence),
            ExtractResponse(document_id,
                ExtractedRow(document_id,
                    ExtractionData(seed, JoinLines(chunk_rows)),
                    "rule-based", RuleBasedConfidence)))

\* a handler that does not look for the document first
extract_contract_data_unchecked(seed, document_id, docs, chunk_rows, rows) ==
    IF get_extracted_data(rows, document_id) # 0
    THEN Outcome(rows, ExtractResponse(document_id,
                           rows[get_extracted_data(rows, document_id)]))
    ELSE IF get_document_chunks(chunk_rows, document_id) = <<>>
    THEN Outcome(rows, NoContent(document_id))
    ELSE ExtractFresh(seed, document_id,
                      get_document_chunks(chunk_rows, document_id), rows)

\* a handler that does not look for a stored extraction first
extract_contract_data_uncached(seed, document_id, docs, chunk_rows, rows) ==
    IF document_id \notin docs
    THEN Outcome(rows, NotFound(document_id))
    ELSE IF get_document_chunks(chunk_rows, document_id) = <<>>
    THEN Outcome(rows, NoContent(document_id))
    ELSE ExtractFresh(seed, document_id,
                      get_document_chunks(chunk_rows, document_id), rows)

\* api.py lines 125-211, POST /extract
extract_contract_data(seed, document_id, docs, chunk_rows, rows) ==
    IF document_id \notin docs
    THEN Outcome(rows, NotFound(document_id))
    ELSE IF get_extracted_data(rows, document_id) # 0
    THEN Outcome(rows, ExtractResponse(document_id,
                           rows[get_extracted_data(rows, document_id)]))
    ELSE IF get_document_chunks(chunk_rows, document_id) = <<>>
    THEN Outcome(rows, NoContent(document_id))
    ELSE ExtractFresh(seed, document_id,
                      get_document_chunks(chunk_rows, document_id), rows)

\* a row of audit_findings
FindingRow(document_id, finding) == [document_id |-> document_id, finding |-> finding]
\* crud.py lines 160-164
get_audit_findings(rows, document_id) ==
    SelectSeq(rows, LAMBDA r : r.document_id = document_id)
StoredFindings(rows) == [i \in 1..Len(rows) |-> rows[i].finding]

AuditResponse(document_id, fs, score) ==
    [status |-> 200, document_id |-> document_id, findings |-> fs,
     total_findings |-> Len(fs), risk_score |-> score]

\* api.py lines 603-615: the fact map made of the stored extraction
SectionValue(words) == IF words = <<>> THEN "" ELSE "section"
FieldValue(field) ==
    IF ~field.found THEN None ELSE IF field.words = <<>> THEN "" ELSE "field"
ExtractedDict(rows, document_id) ==
    IF get_extracted_data(rows, document_id) = 0 THEN NoData
    ELSE Dict({"parties", "effective_date", "term", "governing_law",
               "termination", "auto_renewal"},
              SectionValue(rows[get_extracted_data(rows, document_id)].data.termination),
              FieldValue(rows[get_extracted_data(rows, document_id)].data.governing_law))

\* api.py lines 617-675: the audit is run and its findings are stored; an
\* exception of the engine is answered with 500
AuditFresh(document_id, full_text, facts, rows) ==
    IF RaisingRules(risk_rules, full_text, facts) # {}
    THEN Outcome(rows, HTTPException(500, <<"Failed to audit document">>))
    ELSE Outcome(rows \o [i \in 1..Len(audit_document(full_text, facts).findings) |->
                             FindingRow(document_id,
                                        audit_document(full_text, facts).findings[i])],
                 AuditResponse(document_id,
                               audit_document(full_text, facts).findings,
                               audit_document(full_text, facts).risk_score))

\* api.py lines 545-675, POST /audit
audit_handler(document_id, docs, chunk_rows, extractions, rows) ==
    IF document_id \notin docs
    THEN Outcome(rows, NotFound(document_id))
    ELSE IF get_audit_findings(rows, document_id) # <<>>
    THEN Outcome(rows,
             AuditResponse(document_id,
                 StoredFindings(get_audit_findings(rows, document_id)),
                 calculate_risk_score(
                     StoredFindings(get_audit_findings(rows, document_id)))))
    ELSE IF get_document_chunks(chunk_rows, document_id) = <<>>
    THEN Outcome(rows, NoContent(document_id))
    ELSE AuditFresh(document_id,
                    JoinLines(get_document_chunks(chunk_rows, document_id)),
                    ExtractedDict(extractions, document_id), rows)

\* api.py lines 298-317, GET /documents/{document_id}
DocumentMetadata(document_id) == [status |-> 200, document_id |-> document_id]
get_document(document_id, docs) ==
    IF document_id \notin docs THEN NotFound(document_id)
    ELSE DocumentMetadata(document_id)

\* a row of document_chunks
ChunkRow(document_id, chunk_index, text_content) ==
    [document_id |-> document_id, chunk_index |-> chunk_index,
     text_content |-> text_content]

----------------------------------------------------------------------------
(* The state of a component that is not running *)

ChunkIdle ==
    /\ chunk_size = 1
    /\ chunk_overlap = 0
    /\ start = 0
    /\ end = 0
    /\ chunks = <<>>
    /\ windows = {}

NoCall == [made |-> FALSE, text |-> <<>>, extracted_data |-> NoData,
           findings |-> <<>>, risk_score |-> 0]

AuditIdle ==
    /\ extracted_data = NoData
    /\ findings = <<>>
    /\ risk_score = 0
    /\ risk_rules = RISK_RULES
    /\ first_call = NoCall
    /\ calls = 0

SearchIdle ==
    /\ query = <<>>
    /\ corpus = <<>>
    /\ top_k = 0
    /\ results = <<>>

StreamIdle == events = <<>> /\ deltas = <<>>

NoRequest == [endpoint |-> None, document_id |-> None]
DbIdle ==
    /\ request = NoRequest
    /\ documents = {}
    /\ document_files = {}
    /\ document_chunks = <<>>
    /\ extracted_rows = <<>>
    /\ finding_rows = <<>>
    /\ inflight = <<>>

ApiIdle == llm = "unavailable" /\ summary = NoSummary /\ response = NoResponse

FieldsIdle ==
    /\ auto_renewal = None /\ liability_cap = NoCap
    /\ parties = <<>> /\ hash_seed = DefaultSeed /\ past = <<>>
    /\ effective_date = NoField /\ term = NoField /\ law = NoField

ExtractIdle == FieldsIdle /\ ApiIdle

----------------------------------------------------------------------------
(* chunk_text as a state machine *)

InitChunk ==
    /\ pc = "idle"
    /\ text = <<>>
    /\ StreamIdle /\ DbIdle /\ ChunkIdle /\ AuditIdle /\ SearchIdle /\ ExtractIdle

\* the caller passes a text and a configuration, valid or not
ChunkCall ==
    /\ pc = "idle"
    /\ pc' = "call"
    /\ text' \in SeqsUpTo(ChunkChars, MaxLen)
    /\ chunk_size' \in 0..MaxSize
    /\ chunk_overlap' \in 0..MaxOverlap
    /\ UNCHANGED <<streamVars, dbVars, start, end, chunks, windows, auditVars, searchVars, extractVars, partyVars, fieldVars, apiVars>>

\* lines 88-93: the empty text returns at once, anything else enters the loop
ChunkEnter ==
    /\ pc = "call"
    /\ pc' = IF text = <<>> THEN "done" ELSE "loop"
    /\ UNCHANGED <<streamVars, dbVars, text, chunkVars, auditVars, searchVars, extractVars, partyVars, fieldVars, apiVars>>

\* lines 95-119: one iteration of the while loop
ChunkIterate ==
    /\ pc = "loop"
    /\ start < Len(text)
    /\ Len(chunks) < MaxChunks
    /\ start > 0 - MaxBack
    /\ LET e == ChooseEnd(text, chunk_size, start)
           chunk == Strip(PySlice(text, start, e))
       IN /\ end' = e
          /\ chunks' = IF chunk # <<>> THEN Append(chunks, chunk) ELSE chunks
          /\ windows' = windows \cup {<<start, e>>}
          /\ start' = e - chunk_overlap
    /\ UNCHANGED <<streamVars, dbVars, pc, text, chunk_size, chunk_overlap,
                   auditVars, searchVars, extractVars, partyVars, fieldVars, apiVars>>

\* line 121: the loop condition fails
ChunkReturn ==
    /\ pc = "loop"
    /\ start >= Len(text)
    /\ pc' = "done"
    /\ UNCHANGED <<streamVars, dbVars, text, chunkVars, auditVars, searchVars, extractVars, partyVars, fieldVars, apiVars>>

NextChunk == ChunkCall \/ ChunkEnter \/ ChunkIterate \/ ChunkReturn

SpecChunk == InitChunk /\ [][NextChunk]_vars

\* the same call on longer texts: a sentence or none, then a run of letters
RunTexts ==
    {head \o [i \in 1..k |-> "a"] :
        head \in {<<>>, <<".", " ">>, <<"a", ".", " ">>}, k \in 0..MaxRun}

RunCall ==
    /\ pc = "idle"
    /\ pc' = "call"
    /\ text' \in RunTexts
    /\ chunk_size' \in 0..MaxWindow
    /\ chunk_overlap' \in 0..MaxOverlap
    /\ UNCHANGED <<streamVars, dbVars, start, end, chunks, windows, auditVars, searchVars, extractVars, partyVars, fieldVars, apiVars>>

NextRun == RunCall \/ ChunkEnter \/ ChunkIterate \/ ChunkReturn

SpecRun == InitChunk /\ [][NextRun]_vars

----------------------------------------------------------------------------
(* calculate_risk_score as a state machine *)

\* the findings handed to the function: a severity of the table, a severity
\* outside it, and a finding without the key
ScoreFindings ==
    {[severity |-> s] : s \in {"high", "medium", "low", "critical"}}
        \cup {[finding_type |-> "NO_WARRANTY"]}

\* the caller passes a finding list
InitScore ==
    /\ pc = "score"
    /\ text = <<>>
    /\ StreamIdle /\ DbIdle /\ ChunkIdle /\ SearchIdle /\ ExtractIdle
    /\ extracted_data = NoData
    /\ findings \in SeqsUpTo(ScoreFindings, MaxFindings)
    /\ risk_score = 0
    /\ risk_rules = RISK_RULES
    /\ first_call = NoCall
    /\ calls = 0

\* lines 750-765: the call returns the score
ScoreReturn ==
    /\ pc = "score"
    /\ pc' = "scored"
    /\ risk_score' = calculate_risk_score(findings)
    /\ UNCHANGED <<streamVars, dbVars, text, chunkVars, extracted_data, findings, risk_rules,
                   first_call, calls, searchVars, extractVars, partyVars, fieldVars, apiVars>>

NextScore == ScoreReturn

SpecScore == InitScore /\ [][NextScore]_vars

----------------------------------------------------------------------------
(* audit_document as a state machine *)

\* the audited texts are made of these fragments
AuditFragments ==
    { <<"unlimited", "liability">>, <<"no", "cap", "on", "liability">>,
      <<"automatically", "renews">>, <<"10", "days", "notice">>,
      <<"30", "days", "prior">>, <<"governing", "law">>,
      <<"Governing", "LF", "Law">>, <<"law">>, <<"terminate">>, <<"LF">>,
      <<"indemnify", "and", "hold", "harmless">>, <<"as", "is">> }

AuditTexts == {Flatten(fs) : fs \in SeqsUpTo(AuditFragments, MaxFragments)}

\* the fact maps: None, the empty dict, and the dict that /audit builds
FactMaps ==
    {NoData, Dict({}, None, None)}
        \cup {Dict({"termination", "governing_law"}, tm, gl) :
                 tm \in {None, "upon notice"}, gl \in {None, "Delaware"}}

\* a caller audits other documents between two audits of the same one
OtherTexts == {<<"terminate", "10", "days", "notice">>}

InitAudit ==
    /\ pc = "idle"
    /\ text = <<>>
    /\ StreamIdle /\ DbIdle /\ ChunkIdle /\ AuditIdle /\ SearchIdle /\ ExtractIdle

\* api.py line 618: the first call of a run takes any input, a later call
\* the input of the first call again or one of the other documents
AuditCall ==
    /\ pc \in {"idle", "audited"}
    /\ calls < MaxCalls
    /\ pc' = "audit"
    /\ \/ /\ ~first_call.made
          /\ text' \in AuditTexts
          /\ extracted_data' \in FactMaps
       \/ /\ first_call.made
          /\ text' = first_call.text
          /\ extracted_data' = first_call.extracted_data
       \/ /\ first_call.made
          /\ text' \in OtherTexts
          /\ extracted_data' = NoData
    /\ UNCHANGED <<streamVars, dbVars, chunkVars, findings, risk_score, risk_rules, first_call,
                   calls, searchVars, extractVars, partyVars, fieldVars, apiVars>>

\* lines 591-634: the call runs and returns (findings, risk_score)
AuditReturn ==
    /\ pc = "audit"
    /\ pc' = "audited"
    /\ calls' = calls + 1
    /\ \E r \in {audit_document(text, extracted_data)} :
          /\ findings' = r.findings
          /\ risk_score' = r.risk_score
          /\ first_call' =
                IF first_call.made THEN first_call
                ELSE [made |-> TRUE, text |-> text,
                      extracted_data |-> extracted_data,
                      findings |-> r.findings, risk_score |-> r.risk_score]
    /\ UNCHANGED <<streamVars, dbVars, text, chunkVars, extracted_data, risk_rules,
                   searchVars, extractVars, partyVars, fieldVars, apiVars>>

NextAudit == AuditCall \/ AuditReturn

SpecAudit == InitAudit /\ [][NextAudit]_vars

----------------------------------------------------------------------------
(* semantic_search as a state machine *)

QueryChars == {"a", "B", " "}

ChunkTexts == {<<>>, <<"a">>, <<"a", "a">>, <<"b">>, <<"B", "a">>}

\* the chunk records of a corpus with the given texts
Corpus(texts) == [i \in 1..Len(texts) |-> [chunk_id |-> i, text_content |-> texts[i]]]

\* the caller passes a query, the chunks and top_k
InitSearch ==
    /\ pc = "search"
    /\ text = <<>>
    /\ StreamIdle /\ DbIdle /\ ChunkIdle /\ AuditIdle /\ ExtractIdle
    /\ query \in SeqsUpTo(QueryChars, MaxQueryLen)
    /\ corpus \in {Corpus(ts) : ts \in SeqsUpTo(ChunkTexts, MaxCorpus)}
    /\ top_k \in 0..MaxTopK
    /\ results = <<>>

\* lines 349-364: the call returns the list
SearchReturn ==
    /\ pc = "search"
    /\ pc' = "searched"
    /\ results' = semantic_search(query, corpus, top_k)
    /\ UNCHANGED <<streamVars, dbVars, text, chunkVars, auditVars, query, corpus, top_k, extractVars, partyVars, fieldVars, apiVars>>

NextSearch == SearchReturn

SpecSearch == InitSearch /\ [][NextSearch]_vars

----------------------------------------------------------------------------
(* extract_auto_renewal as a state machine *)

\* the texts handed to the extractor are made of these fragments
RenewalFragments ==
    { <<"automatically", "renews">>, <<"Automatically", "LF", "renew">>,
      <<"automatic", "renewal">>, <<"renews">>, <<"10", "days", "notice">>,
      <<"30", "day", "prior">>, <<"30", "days">>, <<"written", "notice">>,
      <<"LF">> }

RenewalTexts == {Flatten(fs) : fs \in SeqsUpTo(RenewalFragments, MaxClauses)}

\* the caller passes a text
InitExtract ==
    /\ pc = "extract"
    /\ text \in RenewalTexts
    /\ StreamIdle /\ DbIdle /\ ChunkIdle /\ AuditIdle /\ SearchIdle /\ ExtractIdle

\* lines 302-313: the call returns the string
ExtractReturn ==
    /\ pc = "extract"
    /\ pc' = "extracted"
    /\ auto_renewal' = extract_auto_renewal(text)
    /\ UNCHANGED <<streamVars, dbVars, text, chunkVars, auditVars, searchVars, liability_cap, partyVars, fieldVars, apiVars>>

NextExtract == ExtractReturn

SpecExtract == InitExtract /\ [][NextExtract]_vars

----------------------------------------------------------------------------
(* extract_liability_cap as a state machine *)

\* the texts handed to the routine are made of these fragments
CapFragments ==
    { <<"liability">>, <<"liability", "exceed">>, <<"limited", "to">>,
      <<"liability", "under", "EUR">>, <<"USD">>, <<"GBP">>,
      <<"$", "500">>, <<"eur", "500">>, <<"(euro)", "LF", "100,000">>,
      <<"(pound)", "500">>, <<"500">>, <<"LF">> }

CapTexts == {Flatten(fs) : fs \in SeqsUpTo(CapFragments, MaxClauses)}

\* the caller passes a text
InitCap ==
    /\ pc = "cap"
    /\ text \in CapTexts
    /\ StreamIdle /\ DbIdle /\ ChunkIdle /\ AuditIdle /\ SearchIdle /\ ExtractIdle

\* lines 277-297: the call returns the map
CapReturn ==
    /\ pc = "cap"
    /\ pc' = "capped"
    /\ liability_cap' = extract_liability_cap(text)
    /\ UNCHANGED <<streamVars, dbVars, text, chunkVars, auditVars, searchVars, auto_renewal, partyVars, fieldVars, apiVars>>

NextCap == CapReturn

SpecCap == InitCap /\ [][NextCap]_vars


----------------------------------------------------------------------------
(* extract_parties as a state machine: runs of the routine on one text, in one
   process or in several *)

\* the texts handed to the routine are made of these fragments
PartyFragments ==
    { <<"between", "Acme", "Corp", "and", "Globex">>,
      <<"entered", "into", "by", "Globex", "&", "Acme">>,
      <<"Client:", "Initech,", "LF">>,
      <<"Contractor:", "Hooli9", "LF">>,
      <<"Vendor:", "Ab">>,
      <<"BETWEEN", "Stark", "LF", "&", "PARTY", "A:", "Wayne", "Inc.", "LF",
        "Vendor:", "Oscorp", "and", "Umbra", "LF", "Client:", "Soylent", "LF",
        "Contractor:", "Tyrell", "LF">>,
      <<"FILL">>, <<"Acme">>, <<"and">>, <<"LF">> }

PartyTexts == {Flatten(fs) : fs \in SeqsUpTo(PartyFragments, MaxParts)}

\* the caller passes a text; the process has some hash seed
InitParties ==
    /\ pc = "parties"
    /\ text \in PartyTexts
    /\ hash_seed \in Seeds
    /\ StreamIdle /\ DbIdle /\ ChunkIdle /\ AuditIdle /\ SearchIdle
    /\ auto_renewal = None /\ liability_cap = NoCap
    /\ parties = <<>> /\ past = <<>>
    /\ effective_date = NoField /\ term = NoField /\ law = NoField
    /\ ApiIdle

\* lines 202-219: the call returns the list
PartiesReturn ==
    /\ pc = "parties"
    /\ pc' = "parties_done"
    /\ parties' = extract_parties(hash_seed, text)
    /\ UNCHANGED <<streamVars, dbVars, text, chunkVars, auditVars, searchVars, extractVars,
                   hash_seed, past, fieldVars, apiVars>>

\* the same text is extracted once more
PartiesAgain ==
    /\ pc = "parties_done"
    /\ Len(past) < MaxRuns - 1
    /\ pc' = "parties"
    /\ past' = Append(past, parties)
    /\ UNCHANGED <<streamVars, dbVars, text, chunkVars, auditVars, searchVars, extractVars,
                   parties, hash_seed, fieldVars, apiVars>>

\* the next run is made by another process, whose hash seed is another one
Restart ==
    /\ pc = "parties"
    /\ past # <<>>
    /\ hash_seed' \in Seeds \ {hash_seed}
    /\ UNCHANGED <<streamVars, dbVars, pc, text, chunkVars, auditVars, searchVars, extractVars,
                   parties, past, fieldVars, apiVars>>

NextParties == PartiesReturn \/ PartiesAgain \/ Restart

SpecParties == InitParties /\ [][NextParties]_vars

----------------------------------------------------------------------------
(* extract_dates, extract_term and extract_governing_law as state machines *)

\* the texts handed to the routines are made of these fragments
DateFragments ==
    { <<"effective", "January", "5,", "2024">>, <<"dated", "1/2/2024">>,
      <<"Effective", "Date:", "LF", "March", "5,", "2024">>,
      <<"entered", "into", "on">>, <<"1/2/2024">>,
      <<"January", "5,", "LF", "2024">>, <<"signed">>, <<"LF">> }

TermFragments ==
    { <<"term", "of", "2", "years">>, <<"Term:", "two", "years", "LF">>,
      <<"for", "a", "period", "of", "30", "days">>, <<"terminate">>,
      <<"10", "days">>, <<"duration">>, <<"12", "LF", "months">>, <<"Term:">>,
      <<"LF">> }

LawFragments ==
    { <<"governed", "by", "the", "laws", "of", "Delaware.">>,
      <<"governed", "by", "laws", "of", "New", "York", "LF">>,
      <<"governing", "law", "shall", "be", "Texas", "law">>,
      <<"Governing", "Law:", "Nevada">>, <<"Governing", "Law:", "LF">>,
      <<"laws", "of", "Ohio">>, <<"governing", "LF", "law">>, <<"LF">> }

DateTexts == {Flatten(fs) : fs \in SeqsUpTo(DateFragments, MaxClauses)}
TermTexts == {Flatten(fs) : fs \in SeqsUpTo(TermFragments, MaxClauses)}
LawTexts == {Flatten(fs) : fs \in SeqsUpTo(LawFragments, MaxClauses)}

\* the caller passes a text to one of the routines
InitField ==
    /\ \/ pc = "dates" /\ text \in DateTexts
       \/ pc = "term" /\ text \in TermTexts
       \/ pc = "law" /\ text \in LawTexts
    /\ StreamIdle /\ DbIdle /\ ChunkIdle /\ AuditIdle /\ SearchIdle /\ ExtractIdle

\* lines 231-236: the call returns the string or None
DatesReturn ==
    /\ pc = "dates"
    /\ pc' = "dates_done"
    /\ effective_date' = extract_dates(text)
    /\ UNCHANGED <<streamVars, dbVars, text, chunkVars, auditVars, searchVars, extractVars,
                   partyVars, term, law, apiVars>>

\* lines 247-252
TermReturn ==
    /\ pc = "term"
    /\ pc' = "term_done"
    /\ term' = extract_term(text)
    /\ UNCHANGED <<streamVars, dbVars, text, chunkVars, auditVars, searchVars, extractVars,
                   partyVars, effective_date, law, apiVars>>

\* lines 261-266
LawReturn ==
    /\ pc = "law"
    /\ pc' = "law_done"
    /\ law' = extract_governing_law(text)
    /\ UNCHANGED <<streamVars, dbVars, text, chunkVars, auditVars, searchVars, extractVars,
                   partyVars, effective_date, term, apiVars>>

NextField == DatesReturn \/ TermReturn \/ LawReturn

\* every routine of the extractor, each on its texts
InitFields == InitField \/ InitParties \/ InitCap \/ InitExtract

NextFields ==
    DatesReturn \/ TermReturn \/ LawReturn \/ PartiesReturn \/ CapReturn
        \/ ExtractReturn

SpecFields == InitFields /\ [][NextFields]_vars

----------------------------------------------------------------------------
(* audit_document on texts whose numbers int() may not convert *)

RuleFragments ==
    { <<"terminate", "NINES", "days", "notice">>,
      <<"terminate", "10", "days", "notice">>,
      <<"cancel", "30", "days", "notice">>, <<"governing", "law">>,
      <<"as", "is">>, <<"unlimited", "liability">>, <<"LF">> }

RuleTexts == {Flatten(fs) : fs \in SeqsUpTo(RuleFragments, MaxClauses)}

InitRules ==
    /\ pc = "audit_rules"
    /\ text \in RuleTexts
    /\ StreamIdle /\ DbIdle /\ ChunkIdle /\ AuditIdle /\ SearchIdle /\ ExtractIdle

\* lines 594-634: no statement of the loop over the rules catches an
\* exception, so one that a custom check raises leaves audit_document
RulesRaise ==
    /\ pc = "audit_rules"
    /\ RaisingRules(risk_rules, text, extracted_data) # {}
    /\ pc' = "audit_failed"
    /\ UNCHANGED <<streamVars, dbVars, text, chunkVars, auditVars, searchVars, extractVars,
                   partyVars, fieldVars, apiVars>>

RulesReturn ==
    /\ pc = "audit_rules"
    /\ RaisingRules(risk_rules, text, extracted_data) = {}
    /\ pc' = "rules_done"
    /\ \E r \in {audit_document(text, extracted_data)} :
          /\ findings' = r.findings
          /\ risk_score' = r.risk_score
    /\ UNCHANGED <<streamVars, dbVars, text, chunkVars, extracted_data, risk_rules, first_call,
                   calls, searchVars, extractVars, partyVars, fieldVars, apiVars>>

NextRules == RulesRaise \/ RulesReturn

SpecRules == InitRules /\ [][NextRules]_vars

----------------------------------------------------------------------------
(* generate_audit_summary as a state machine *)

\* the findings handed to the function are findings as audit_document makes
\* them: they carry a severity and a description
SummaryFindings ==
    {[severity |-> s, description |-> "Rule"] : s \in {"high", "medium", "low"}}

LLMStates == {"unavailable", "fails", "answers"}

\* the caller passes a finding list and its score; the LLM client is absent,
\* or its call fails, or it answers
InitSummary ==
    /\ pc = "summary"
    /\ text = <<>>
    /\ StreamIdle /\ DbIdle /\ ChunkIdle /\ SearchIdle /\ FieldsIdle
    /\ extracted_data = NoData
    /\ findings \in SeqsUpTo(SummaryFindings, MaxFindings)
    /\ risk_score = calculate_risk_score(findings)
    /\ risk_rules = RISK_RULES
    /\ first_call = NoCall
    /\ calls = 0
    /\ llm \in LLMStates
    /\ summary = NoSummary
    /\ response = NoResponse

\* lines 781-815: the call returns the string, or an exception leaves it
SummaryReturn ==
    /\ pc = "summary"
    /\ \E r \in {generate_audit_summary(llm, findings, risk_score)} :
          /\ pc' = IF r.kind = "raise" THEN "summary_failed" ELSE "summarized"
          /\ summary' = r
    /\ UNCHANGED <<streamVars, dbVars, text, chunkVars, auditVars, searchVars, extractVars,
                   partyVars, fieldVars, llm, response>>

NextSummary == SummaryReturn

SpecSummary == InitSummary /\ [][NextSummary]_vars

----------------------------------------------------------------------------
(* POST /ask as a state machine *)

AskQuestions == {<<>>, <<" ">>, <<"a">>, <<"b">>, <<"a", " ", "B">>}
AskTexts == {<<"a">>, <<"b">>, <<"a", "b">>}

\* the request carries a question and max_results (1 to 20, line 68 of
\* schemas.py); the chunks of the documents searched are given
InitAsk ==
    /\ pc = "ask"
    /\ text = <<>>
    /\ StreamIdle /\ DbIdle /\ ChunkIdle /\ AuditIdle /\ FieldsIdle
    /\ query \in AskQuestions
    /\ corpus \in {Corpus(ts) : ts \in SeqsUpTo({<<"a">>}, MaxAskChunks)
                                       \cup SeqsUpTo(AskTexts, 2)}
    /\ top_k \in {1, CitationLimit, MaxAskChunks}
    /\ results = <<>>
    /\ llm \in LLMStates
    /\ summary = NoSummary
    /\ response = NoResponse

\* api.py lines 338-430: the handler runs and responds
AskReturn ==
    /\ pc = "ask"
    /\ pc' = "asked"
    /\ results' = (IF Question400(query) \/ corpus = <<>> THEN <<>>
                   ELSE semantic_search(query, corpus, top_k))
    /\ response' = ask_question(llm, query, corpus, top_k)
    /\ UNCHANGED <<streamVars, dbVars, text, chunkVars, auditVars, query, corpus, top_k,
                   extractVars, partyVars, fieldVars, llm, summary>>

NextAsk == AskReturn

SpecAsk == InitAsk /\ [][NextAsk]_vars

----------------------------------------------------------------------------
(* The API over its database: requests are served one after the other *)

\* the texts of the uploaded files
ApiTexts ==
    { <<>>,
      <<"Client:", "Soylent", "LF", "Vendor:", "Oscorp", "LF">>,
      <<"governing", "law", "LF", "terminate", "10", "days", "notice">>,
      <<"termination", "LF", "as", "is">> }

\* the string hash seeds of the server processes
ServerSeeds == {DefaultSeed, [i \in 1..NumSlots |-> NumSlots + 1 - i]}

Request(endpoint, document_id) == [endpoint |-> endpoint, document_id |-> document_id]
IngestResponse(document_ids) ==
    [status |-> 200, document_ids |-> document_ids,
     total_documents |-> Len(document_ids)]

\* the database is empty when the server is first started
InitApi ==
    /\ pc = "serving"
    /\ text = <<>>
    /\ hash_seed \in ServerSeeds
    /\ auto_renewal = None /\ liability_cap = NoCap
    /\ parties = <<>> /\ past = <<>>
    /\ effective_date = NoField /\ term = NoField /\ law = NoField
    /\ StreamIdle /\ DbIdle /\ ChunkIdle /\ AuditIdle /\ SearchIdle /\ ApiIdle

\* api.py lines 27-121, POST /ingest with one file that can be read: the
\* document gets a new uuid and its text is stored in chunks
Ingest ==
    /\ pc = "serving"
    /\ \E document_id \in DocIds \ documents, t \in ApiTexts :
          /\ request' = Request("/ingest", None)
          /\ documents' = documents \cup {document_id}
          /\ document_files' = document_files \cup {<<document_id, "f1.pdf">>}
          /\ document_chunks' = document_chunks \o
                 [i \in 1..Len(chunk_words(t)) |->
                     ChunkRow(document_id, i - 1, chunk_words(t)[i])]
          /\ response' = IngestResponse(<<document_id>>)
    /\ UNCHANGED <<streamVars, pc, text, chunkVars, auditVars, searchVars, extractVars,
                   partyVars, fieldVars, llm, summary, extracted_rows, finding_rows,
                   inflight>>

\* POST /extract
Extract ==
    /\ pc = "serving"
    /\ \E document_id \in RequestIds :
          /\ request' = Request("/extract", document_id)
          /\ \E out \in {extract_contract_data(hash_seed, document_id, documents,
                                               document_chunks, extracted_rows)} :
                /\ extracted_rows' = out.rows
                /\ response' = out.response
    /\ UNCHANGED <<streamVars, pc, text, chunkVars, auditVars, searchVars, extractVars,
                   partyVars, fieldVars, llm, summary, documents, document_files,
                   document_chunks, finding_rows, inflight>>

\* POST /audit
Audit ==
    /\ pc = "serving"
    /\ \E document_id \in RequestIds :
          /\ request' = Request("/audit", document_id)
          /\ \E out \in {audit_handler(document_id, documents, document_chunks,
                                       extracted_rows, finding_rows)} :
                /\ finding_rows' = out.rows
                /\ response' = out.response
    /\ UNCHANGED <<streamVars, pc, text, chunkVars, auditVars, searchVars, extractVars,
                   partyVars, fieldVars, llm, summary, documents, document_files,
                   document_chunks, extracted_rows, inflight>>

\* GET /documents/{document_id}
GetDocument ==
    /\ pc = "serving"
    /\ \E document_id \in RequestIds :
          /\ request' = Request("/documents", document_id)
          /\ response' = get_document(document_id, documents)
    /\ UNCHANGED <<streamVars, pc, text, chunkVars, auditVars, searchVars, extractVars,
                   partyVars, fieldVars, llm, summary, documents, document_files,
                   document_chunks, extracted_rows, finding_rows, inflight>>

\* the server is stopped and started again: the database stays, the string
\* hash seed of the new process is another one
ServerRestart ==
    /\ pc = "serving"
    /\ hash_seed' \in ServerSeeds \ {hash_seed}
    /\ UNCHANGED <<streamVars, pc, text, chunkVars, auditVars, searchVars, extractVars,
                   parties, past, fieldVars, apiVars, dbVars>>

NextApi == Ingest \/ Extract \/ Audit \/ GetDocument \/ ServerRestart

SpecApi == InitApi /\ [][NextApi]_vars

----------------------------------------------------------------------------
(* POST /stream: the handler and the generator of its response, one step for
   each event it yields *)

\* the contents of the deltas of the stream of the LLM; "" is a delta without
\* content (the first delta, which carries the role, and the last one)
DeltaContents == {"tok", ""}

\* the events of the response
CitationsEvent(citations) == [type |-> "citations", content |-> citations]
TextEvent(content) == [type |-> "text", content |-> <<content>>]
DoneEvent == [type |-> "[DONE]", content |-> <<>>]

\* the request carries a question and max_results; the chunks of the
\* documents searched are given; the stream of the LLM delivers its deltas
\* and then ends (llm = "answers") or breaks (llm = "fails")
InitStream ==
    /\ pc = "stream"
    /\ text = <<>>
    /\ DbIdle /\ ChunkIdle /\ AuditIdle /\ FieldsIdle
    /\ query \in AskQuestions
    /\ corpus \in {Corpus(ts) : ts \in SeqsUpTo(AskTexts, 2)}
    /\ top_k \in {1, CitationLimit}
    /\ results = <<>>
    /\ llm \in LLMStates
    /\ summary = NoSummary
    /\ response = NoResponse
    /\ events = <<>>
    /\ deltas \in (IF llm = "unavailable" THEN {<<>>}
                   ELSE SeqsUpTo(DeltaContents, MaxDeltas))

\* api.py lines 444-532: the handler rejects the request or searches, builds
\* the citations and starts the generator, which yields the citations
StreamOpen ==
    /\ pc = "stream"
    /\ IF Question400(query)
       THEN /\ response' = Failure(400, "Question cannot be empty")
            /\ pc' = "stream_rejected"
            /\ UNCHANGED <<results, events>>
       ELSE IF corpus = <<>>
       THEN /\ response' = Failure(400, "No text content available")
            /\ pc' = "stream_rejected"
            /\ UNCHANGED <<results, events>>
       ELSE /\ results' = semantic_search(query, corpus, top_k)
            /\ response' = AskResponse("text/event-stream", <<>>, 0)
            /\ events' = <<CitationsEvent(Citations(results'))>>
            /\ pc' = IF results' = <<>> THEN "stream_none" ELSE "stream_answer"
    /\ UNCHANGED <<dbVars, text, chunkVars, auditVars, query, corpus, top_k,
                   extractVars, partyVars, fieldVars, llm, summary, deltas>>

\* what the steps of the generator leave alone
StreamFrame ==
    UNCHANGED <<dbVars, text, chunkVars, auditVars, searchVars, extractVars,
                partyVars, fieldVars, apiVars>>

\* api.py lines 518-521: nothing was found
StreamNone ==
    /\ pc = "stream_none"
    /\ events' = Append(events, TextEvent("No relevant information found."))
    /\ pc' = "stream_end"
    /\ UNCHANGED deltas /\ StreamFrame

\* utils.py lines 448-450: there is no client
StreamUnavailable ==
    /\ pc = "stream_answer" /\ llm = "unavailable"
    /\ events' = Append(events, TextEvent("OpenAI API not configured"))
    /\ pc' = "stream_end"
    /\ UNCHANGED deltas /\ StreamFrame

\* utils.py lines 489-491 and api.py lines 524-529: the next delta of the
\* stream; it is passed on if it has content
StreamDelta ==
    /\ pc = "stream_answer" /\ llm # "unavailable" /\ deltas # <<>>
    /\ events' = IF Head(deltas) # "" THEN Append(events, TextEvent(Head(deltas)))
                 ELSE events
    /\ deltas' = Tail(deltas)
    /\ UNCHANGED pc /\ StreamFrame

\* utils.py lines 493-495: the call or the stream raises
StreamError ==
    /\ pc = "stream_answer" /\ llm = "fails" /\ deltas = <<>>
    /\ events' = Append(events, TextEvent("Error"))
    /\ pc' = "stream_end"
    /\ UNCHANGED deltas /\ StreamFrame

\* utils.py line 489: the stream has ended
StreamExhausted ==
    /\ pc = "stream_answer" /\ llm = "answers" /\ deltas = <<>>
    /\ pc' = "stream_end"
    /\ UNCHANGED <<events, deltas>> /\ StreamFrame

\* api.py lines 521 and 532: the completion signal
StreamDone ==
    /\ pc = "stream_end"
    /\ events' = Append(events, DoneEvent)
    /\ pc' = "streamed"
    /\ UNCHANGED deltas /\ StreamFrame

NextStream ==
    StreamOpen \/ StreamNone \/ StreamUnavailable \/ StreamDelta \/ StreamError
        \/ StreamExhausted \/ StreamDone

SpecStream == InitStream /\ [][NextStream]_vars
----------------------------------------------------------------------------
(* POST /audit answered side by side: the handler of api.py holds no lock and
   the table audit_findings has no unique constraint (models.py), so the
   requests that the workers of the server answer on one database interleave
   at every read and at every commit.  One step is one read or one commit of
   one request. *)

\* the document audited and the texts it may have
RaceId == "d1"
RaceTexts ==
    { <<"governing", "law", "LF", "terminate", "10", "days", "notice">>,
      <<"termination", "LF", "as", "is">>,
      <<"governing", "law", "LF", "termination">> }

\* a request under way: where its handler stands, the findings of its audit,
\* how many of them it has stored, and its response
Session(at, fs, score, saved, resp) ==
    [at |-> at, findings |-> fs, risk_score |-> score, saved |-> saved,
     response |-> resp]

\* the document is ingested, and may have been extracted, before the requests
InitRace ==
    /\ pc = "racing"
    /\ text \in RaceTexts
    /\ hash_seed = DefaultSeed
    /\ auto_renewal = None /\ liability_cap = NoCap
    /\ parties = <<>> /\ past = <<>>
    /\ effective_date = NoField /\ term = NoField /\ law = NoField
    /\ StreamIdle /\ ChunkIdle /\ AuditIdle /\ SearchIdle /\ ApiIdle
    /\ request = Request("/audit", RaceId)
    /\ documents = {RaceId}
    /\ document_files = {<<RaceId, "f1.pdf">>}
    /\ document_chunks = [i \in 1..Len(chunk_words(text)) |->
                             ChunkRow(RaceId, i - 1, chunk_words(text)[i])]
    /\ extracted_rows \in
           {<<>>, ExtractFresh(hash_seed, RaceId, document_chunks, <<>>).rows}
    /\ finding_rows = <<>>
    /\ inflight = <<>>

\* what the steps of the handler leave alone
RaceFrame ==
    UNCHANGED <<streamVars, pc, text, chunkVars, auditVars, searchVars, extractVars,
                partyVars, fieldVars, apiVars, request, documents, document_files,
                document_chunks, extracted_rows>>

\* api.py lines 545-548: a request arrives
RaceArrive ==
    /\ pc = "racing"
    /\ Len(inflight) < MaxRequests
    /\ inflight' = Append(inflight, Session("received", <<>>, 0, 0, NoResponse))
    /\ UNCHANGED finding_rows /\ RaceFrame

\* api.py lines 556-562: the document is looked up
RaceFindDocument ==
    /\ pc = "racing"
    /\ \E i \in 1..Len(inflight) :
          /\ inflight[i].at = "received"
          /\ inflight' = [inflight EXCEPT ![i] =
                 IF RaceId \in documents
                 THEN Session("found", <<>>, 0, 0, NoResponse)
                 ELSE Session("answered", <<>>, 0, 0, NotFound(RaceId))]
    /\ UNCHANGED finding_rows /\ RaceFrame

\* api.py lines 564-591: the stored findings are read, and answered if there
\* are any
RaceFindCached ==
    /\ pc = "racing"
    /\ \E i \in 1..Len(inflight) :
          /\ inflight[i].at = "found"
          /\ inflight' = [inflight EXCEPT ![i] =
                 IF get_audit_findings(finding_rows, RaceId) # <<>>
                 THEN Session("answered", <<>>, 0, 0,
                          AuditResponse(RaceId,
                              StoredFindings(get_audit_findings(finding_rows, RaceId)),
                              calculate_risk_score(StoredFindings(
                                  get_audit_findings(finding_rows, RaceId)))))
                 ELSE Session("uncached", <<>>, 0, 0, NoResponse)]
    /\ UNCHANGED finding_rows /\ RaceFrame

\* api.py lines 593-601: the chunks are read
RaceReadChunks ==
    /\ pc = "racing"
    /\ \E i \in 1..Len(inflight) :
          /\ inflight[i].at = "uncached"
          /\ inflight' = [inflight EXCEPT ![i] =
                 IF get_document_chunks(document_chunks, RaceId) = <<>>
                 THEN Session("answered", <<>>, 0, 0, NoContent(RaceId))
                 ELSE Session("read", <<>>, 0, 0, NoResponse)]
    /\ UNCHANGED finding_rows /\ RaceFrame

\* api.py lines 603-618: the stored extraction is read and the audit is run
RaceAudit ==
    /\ pc = "racing"
    /\ \E i \in 1..Len(inflight) :
          /\ inflight[i].at = "read"
          /\ \E out \in {AuditFresh(RaceId,
                             JoinLines(get_document_chunks(document_chunks, RaceId)),
                             ExtractedDict(extracted_rows, RaceId), <<>>)} :
                inflight' = [inflight EXCEPT ![i] =
                    IF out.response.status # 200
                    THEN Session("answered", <<>>, 0, 0, out.response)
                    ELSE Session("saving", out.response.findings,
                                 out.response.risk_score, 0, NoResponse)]
    /\ UNCHANGED finding_rows /\ RaceFrame

\* api.py lines 620-644 and crud.py lines 130-157: the next finding is
\* stored and committed
RaceSave ==
    /\ pc = "racing"
    /\ \E i \in 1..Len(inflight) :
          /\ inflight[i].at = "saving"
          /\ inflight[i].saved < Len(inflight[i].findings)
          /\ finding_rows' = Append(finding_rows,
                 FindingRow(RaceId, inflight[i].findings[inflight[i].saved + 1]))
          /\ inflight' = [inflight EXCEPT ![i].saved = @ + 1]
    /\ RaceFrame

\* api.py lines 646-668: all findings are stored, the response is sent
RaceAnswer ==
    /\ pc = "racing"
    /\ \E i \in 1..Len(inflight) :
          /\ inflight[i].at = "saving"
          /\ inflight[i].saved = Len(inflight[i].findings)
          /\ inflight' = [inflight EXCEPT ![i] =
                 Session("answered", @.findings, @.risk_score, @.saved,
                         AuditResponse(RaceId, @.findings, @.risk_score))]
    /\ UNCHANGED finding_rows /\ RaceFrame

NextRace ==
    RaceArrive \/ RaceFindDocument \/ RaceFindCached \/ RaceReadChunks
        \/ RaceAudit \/ RaceSave \/ RaceAnswer

SpecRace == InitRace /\ [][NextRace]_vars

----------------------------------------------------------------------------
(* POST /ingest with several files.  The handler goes through the files in
   turn; every crud call commits on its own, so what was stored for a file
   stays when a later call for the same file raises. *)

\* an uploaded file: its name, what it is, and the text of the PDF.  A PDF is
\* "stored" when all its chunks can be inserted; the other one is a PDF whose
\* first create_document_chunk raises (the database refuses the row)
UploadFile(filename, kind, t) == [filename |-> filename, kind |-> kind, text |-> t]
FileKinds == {"not_pdf", "empty", "unreadable", "stored", "refused"}
IngestTexts ==
    { <<>>, <<"termination", "LF", "as", "is">>, <<"governing", "law">> }
FileNames == <<"f1.pdf", "f2.pdf", "f3.pdf">>
\* the requests: the file in place i is called FileNames[i]; a PDF that the
\* database refuses is the last file of its request, since what the session
\* does after a failed commit is not followed
Uploads ==
    {fs \in UNION {[1..k -> [filename : {FileNames[i] : i \in 1..Len(FileNames)},
                             kind : FileKinds, text : IngestTexts] ]
                      : k \in 1..MaxFiles} :
        \A i \in 1..Len(fs) :
            /\ fs[i].filename = FileNames[i]
            /\ fs[i].kind \in {"not_pdf", "empty", "unreadable"} => fs[i].text = <<>>
            /\ fs[i].kind = "refused" => i = Len(fs) /\ chunk_words(fs[i].text) # <<>>}

\* crud.py line 17: a uuid that no document has
NewId(docs) == CHOOSE d \in DocIds : d \notin docs

\* the tables and the two lists of the handler while it goes through the files
Ingesting(docs, files, chunk_rows, document_ids, errors) ==
    [documents |-> docs, document_files |-> files, document_chunks |-> chunk_rows,
     document_ids |-> document_ids, errors |-> errors]

\* api.py lines 72-80, crud.py lines 9-30: the document record is created and
\* committed
WithDocument(s, file) ==
    [s EXCEPT !.documents = @ \cup {NewId(s.documents)},
              !.document_files = @ \cup {<<NewId(s.documents), file.filename>>}]

\* api.py lines 82-100: the chunks are cut and stored one by one
WithChunks(s, document_id, file) ==
    [s EXCEPT !.document_chunks = @ \o
                 [i \in 1..Len(chunk_words(file.text)) |->
                     ChunkRow(document_id, i - 1, chunk_words(file.text)[i])]]

\* api.py lines 45-106: one pass of the loop
ingest_file(s, file) ==
    IF file.kind \in {"not_pdf", "empty", "unreadable"}
    THEN [s EXCEPT !.errors = Append(@, file.filename)]
    ELSE IF file.kind = "refused"
    THEN [WithDocument(s, file) EXCEPT !.errors = Append(@, file.filename)]
    ELSE [WithChunks(WithDocument(s, file), NewId(s.documents), file)
              EXCEPT !.document_ids = Append(@, NewId(s.documents))]

RECURSIVE ingest_files(_, _)
ingest_files(s, files) ==
    IF files = <<>> THEN s
    ELSE ingest_files(ingest_file(s, Head(files)), Tail(files))

\* api.py lines 108-121: the response
IngestAnswer(document_ids, errors) ==
    IF document_ids = <<>> /\ errors # <<>>
    THEN [status |-> 400, document_ids |-> <<>>, total_documents |-> 0,
          errors |-> errors]
    ELSE [status |-> 200, document_ids |-> document_ids,
          total_documents |-> Len(document_ids), errors |-> errors]

IngestRequest(files) == [endpoint |-> "/ingest", document_id |-> None, files |-> files]

InitIngest ==
    /\ pc = "ingesting"
    /\ text = <<>>
    /\ hash_seed = DefaultSeed
    /\ auto_renewal = None /\ liability_cap = NoCap
    /\ parties = <<>> /\ past = <<>>
    /\ effective_date = NoField /\ term = NoField /\ law = NoField
    /\ StreamIdle /\ DbIdle /\ ChunkIdle /\ AuditIdle /\ SearchIdle /\ ApiIdle

\* api.py lines 23-121, POST /ingest
IngestFiles ==
    /\ pc = "ingesting"
    /\ \E files \in Uploads :
          /\ Cardinality(documents) + Len(files) <= Cardinality(DocIds)
          /\ request' = IngestRequest(files)
          /\ \E s \in {ingest_files(Ingesting(documents, document_files,
                                              document_chunks, <<>>, <<>>), files)} :
                /\ documents' = s.documents
                /\ document_files' = s.document_files
                /\ document_chunks' = s.document_chunks
                /\ response' = IngestAnswer(s.document_ids, s.errors)
    /\ UNCHANGED <<streamVars, pc, text, chunkVars, auditVars, searchVars, extractVars,
                   partyVars, fieldVars, llm, summary, extracted_rows, finding_rows,
                   inflight>>

\* GET /documents/{document_id} after the ingest
IngestLookup ==
    /\ pc = "ingesting"
    /\ \E document_id \in RequestIds :
          /\ request' = Request("/documents", document_id)
          /\ response' = get_document(document_id, documents)
    /\ UNCHANGED <<streamVars, pc, text, chunkVars, auditVars, searchVars, extractVars,
                   partyVars, fieldVars, llm, summary, documents, document_files,
                   document_chunks, extracted_rows, finding_rows, inflight>>

NextIngest == IngestFiles \/ IngestLookup

SpecIngest == InitIngest /\ [][NextIngest]_vars

----------------------------------------------------------------------------
(* Claims about chunk_text *)

\* C1: for any text and any valid configuration (size > 0, 0 <= overlap < size)
\* chunk_text terminates: the cursor reaches start >= len(text) after finitely
\* many loop iterations.  One iteration is a function of the cursor alone
\* (text and configuration do not change), so the loop can only terminate if
\* no iteration leaves the cursor where it found it.
C1_ChunkTerminates ==
    [][(pc = "loop" /\ ValidConfig /\ start < Len(text)) => start' # start]_vars

\* C2: called on a non-empty text with an invalid configuration (overlap >= size
\* or a non-positive size) chunk_text fails at once with an explicit error and
\* never runs its loop.
C2_InvalidConfigFailsFast ==
    (text # <<>> /\ ~ValidConfig) => pc \in {"call", "error"}

----------------------------------------------------------------------------
(* Claims about the risk auditor *)

\* C3: for every text and every fact map (or none) the finding list returned
\* by audit_document holds at most one finding per rule id, also for rules with
\* both a regex list and a custom check and for rules with several regexes.
C3_OneFindingPerRule ==
    pc = "audited" =>
        \A i, j \in 1..Len(findings) :
            i # j => findings[i].finding_type # findings[j].finding_type

KnownSeverities == {"high", "medium", "low"}

AllKnown(fs) ==
    \A i \in 1..Len(fs) :
        "severity" \in DOMAIN fs[i] /\ fs[i].severity \in KnownSeverities

CountSeverity(fs, s) == Cardinality({i \in 1..Len(fs) : fs[i].severity = s})

Permuted(fs, p) == [i \in 1..Len(fs) |-> fs[p[i]]]

\* C4: on a finding list whose severities are high, medium or low,
\* calculate_risk_score returns min(100, 30*#high + 15*#medium + 5*#low):
\* 0 for the empty list, 30 for one high finding, 75 for two high and one
\* medium, never below 0 or above 100, the same for every permutation.
C4_RiskScoreFormula ==
    (pc = "scored" /\ AllKnown(findings)) =>
        /\ risk_score = Min(100, 30 * CountSeverity(findings, "high")
                                 + 15 * CountSeverity(findings, "medium")
                                 + 5 * CountSeverity(findings, "low"))
        /\ risk_score >= 0 /\ risk_score <= 100
        /\ findings = <<>> => risk_score = 0
        /\ findings = <<[severity |-> "high"]>> => risk_score = 30
        /\ findings = <<[severity |-> "high"], [severity |-> "high"],
                        [severity |-> "medium"]>> => risk_score = 75
        /\ \A p \in Permutations(1..Len(findings)) :
               calculate_risk_score(Permuted(findings, p)) = risk_score

\* four findings of mixed severity whose sum of weights exceeds the cap
C4_Witness ==
    /\ pc = "scored" /\ AllKnown(findings)
    /\ Len(findings) = 4
    /\ CountSeverity(findings, "high") = 3
    /\ CountSeverity(findings, "medium") = 1
    /\ findings[1].severity = "medium"
    /\ risk_score = 100

HasGoverningLaw(t) ==
    \E i, j \in 1..Len(t) :
        /\ i < j
        /\ Lower(t[i]) = "governing" /\ Lower(t[j]) = "law"
        /\ \A k \in (i + 1)..(j - 1) : t[k] = "LF"

\* C6: for every text without a "governing law" phrase (any case, any white
\* space between the two words), with or without a fact map, audit_document
\* returns exactly one MISSING_GOVERNING_LAW finding, of severity medium.
C6_MissingGoverningLaw ==
    (pc = "audited" /\ ~HasGoverningLaw(text)) =>
        LET G == {i \in 1..Len(findings) :
                      findings[i].finding_type = "MISSING_GOVERNING_LAW"}
        IN Cardinality(G) = 1 /\ \A i \in G : findings[i].severity = "medium"

\* a text with the word law but without the phrase, audited with a fact map
\* that names a governing law
C6_Witness ==
    /\ pc = "audited" /\ ~HasGoverningLaw(text)
    /\ \E i \in 1..Len(text) : text[i] = "law"
    /\ ~extracted_data.isNone /\ extracted_data.governing_law = "Delaware"
    /\ \E i \in 1..Len(findings) : findings[i].finding_type = "MISSING_GOVERNING_LAW"

----------------------------------------------------------------------------
(* Claims about the lexical retriever *)

\* w is one of the white-space separated words of s
IsWordOf(w, s) ==
    \E i \in 1..Len(s) : \E j \in i..Len(s) :
        /\ SubSeq(s, i, j) = w
        /\ \A k \in i..j : s[k] # " "
        /\ i = 1 \/ s[i - 1] = " "
        /\ j = Len(s) \/ s[j + 1] = " "

\* the distinct words of the lower-cased query that occur in the lower-cased t
WordsPresent(q, t) ==
    {w \in SeqsUpTo({"a", "b"}, Len(q)) :
        /\ IsWordOf(w, lower(q))
        /\ \E k \in 1..Len(t) :
              k + Len(w) - 1 <= Len(t) /\ SubSeq(lower(t), k, k + Len(w) - 1) = w}

\* C7: semantic_search gives a chunk the number of distinct lower-cased
\* white-space separated query words that occur in its lower-cased text
\* (presence, not frequency) as score, returns a chunk only if its score is
\* positive, and so returns the empty list for an empty query or corpus.
C7_ScoreIsWordsPresent ==
    pc = "searched" =>
        /\ \A i \in 1..Len(results) :
              LET r == results[i]
              IN /\ r.chunk_id \in 1..Len(corpus)
                 /\ r.text_content = corpus[r.chunk_id].text_content
                 /\ r.relevance_score
                        = Cardinality(WordsPresent(query, r.text_content))
                 /\ r.relevance_score > 0
        /\ (query = <<>> \/ corpus = <<>>) => results = <<>>

\* a query that repeats its word, and a returned chunk that holds the word
\* twice
C7_Witness ==
    /\ pc = "searched"
    /\ query = <<"a", " ", "a">>
    /\ \E i \in 1..Len(results) :
          results[i].text_content = <<"a", "a">> /\ results[i].relevance_score = 1

\* C8: the result is ordered by non-increasing score, records of equal score
\* stand in corpus order, and a chunk that holds more of the query words
\* stands before a chunk that holds fewer.
C8_RankingStable ==
    pc = "searched" =>
        \A i, j \in 1..Len(results) :
            /\ i < j => results[i].relevance_score >= results[j].relevance_score
            /\ (i < j /\ results[i].relevance_score = results[j].relevance_score)
                  => results[i].chunk_id < results[j].chunk_id
            /\ Cardinality(WordsPresent(query, results[i].text_content))
                   > Cardinality(WordsPresent(query, results[j].text_content))
                  => i < j

\* a result that holds a tie and, behind it in the corpus, a better chunk
C8_Witness ==
    /\ pc = "searched" /\ Len(results) = 2
    /\ results[1].relevance_score = 2
    /\ results[2].relevance_score = 1
    /\ results[2].chunk_id < results[1].chunk_id
    /\ \E i \in 1..Len(corpus) :
          /\ i > results[2].chunk_id
          /\ Cardinality(WordsPresent(query, corpus[i].text_content)) = 1

\* the chunks of the corpus with a positive score
Positive(q, cs) ==
    {i \in 1..Len(cs) : WordsPresent(q, cs[i].text_content) # {}}

\* C9: for top_k >= 0 semantic_search returns exactly min(top_k, number of
\* chunks with a positive score) records, the first ones of the full ranking.
C9_TopKPrefix ==
    (pc = "searched" /\ top_k >= 0) =>
        LET full == semantic_search(query, corpus, Len(corpus))
        IN /\ Len(results) = Min(top_k, Cardinality(Positive(query, corpus)))
           /\ Len(full) = Cardinality(Positive(query, corpus))
           /\ results = SubSeq(full, 1, Len(results))

\* top_k cuts a ranking of three records whose best one is last in the corpus
C9_Witness ==
    /\ pc = "searched" /\ top_k = 1
    /\ Cardinality(Positive(query, corpus)) = 3
    /\ Len(results) = 1
    /\ results[1].chunk_id = 3

----------------------------------------------------------------------------
(* Claims about the field extractor *)

\* only line feeds stand between the words i and j of t
Adjacent(t, i, j) == i < j /\ \A k \in (i + 1)..(j - 1) : t[k] = "LF"

\* the text holds an automatic-renewal phrase
HasAutoRenewal(t) ==
    \E i, j \in 1..Len(t) :
        /\ Adjacent(t, i, j)
        /\ Lower(t[i]) \in {"auto", "automatic", "automatically"}
        /\ t[j] \in {"renew", "renews", "renewal"}

\* the words of t at which a "<N> day(s) notice/prior" phrase starts
NoticePhrases(t) ==
    {i \in 1..Len(t) :
        /\ t[i] \in {"10", "30"}
        /\ \E j, k \in 1..Len(t) :
              /\ Adjacent(t, i, j) /\ Adjacent(t, j, k)
              /\ t[j] \in {"day", "days"}
              /\ t[k] \in {"notice", "prior"}}

\* C10: extract_auto_renewal returns "No" exactly when the text has no
\* automatic-renewal phrase; with the phrase it returns "Yes, N days notice
\* required", N from the first "<N> day(s) notice/prior" phrase anywhere in
\* the text, and "Yes" when there is no such phrase; nothing else is returned.
C10_AutoRenewal ==
    pc = "extracted" =>
        /\ auto_renewal = "No" <=> ~HasAutoRenewal(text)
        /\ HasAutoRenewal(text) =>
              IF NoticePhrases(text) = {} THEN auto_renewal = "Yes"
              ELSE LET first == CHOOSE i \in NoticePhrases(text) :
                                    \A j \in NoticePhrases(text) : i <= j
                   IN auto_renewal
                          = "Yes, " \o text[first] \o " days notice required"
        /\ auto_renewal \in {"No", "Yes", "Yes, 10 days notice required",
                             "Yes, 30 days notice required"}

\* a notice period before the renewal phrase and another one behind it
C10_Witness ==
    /\ pc = "extracted"
    /\ text = <<"10", "days", "notice", "automatically", "renews",
                "30", "day", "prior">>
    /\ auto_renewal = "Yes, 10 days notice required"

\* the currency that a marker stands for, whatever its case
Normalized(marker) ==
    CASE Lower(marker) \in {"(euro)", "eur"} -> "EUR"
      [] Lower(marker) \in {"(pound)", "gbp"} -> "GBP"
      [] OTHER -> "USD"

\* the marker of an amount: the last word before it that is not a line feed
MarkerOf(t, a) ==
    t[CHOOSE r \in 1..(a - 1) : t[r] # "LF" /\ \A k \in (r + 1)..(a - 1) : t[k] = "LF"]

\* the amount words of the text that the returned cap can stem from
CapturedAmounts(t) ==
    {a \in 2..Len(t) :
        /\ t[a] \in Amounts /\ float(t[a]) = liability_cap.amount
        /\ \E r \in 1..(a - 1) : t[r] # "LF"}

\* C11: whenever extract_liability_cap returns a cap, its currency is the
\* normalization of the marker of the captured amount (EUR for the euro sign or
\* EUR, GBP for the pound sign or GBP, USD otherwise), whatever the letter case
\* and whatever other currency markers stand in the matched clause.
C11_CurrencyOfAmount ==
    (pc = "capped" /\ liability_cap.found) =>
        \E a \in CapturedAmounts(text) :
            liability_cap.currency = Normalized(MarkerOf(text, a))


----------------------------------------------------------------------------
\* the text holds one of the words (compared in lower case)
HasWord(t, S) == \E i \in 1..Len(t) : Lower(t[i]) \in S

\* a match of the first liability pattern whose amount does not parse
Unparsable == CapMatch(1, 1, 1)

C12_WitnessCascade ==
    /\ pc = "capped" /\ text = <<"$", "500", "liability">>
    /\ FloatRaises(text[1]) /\ CapSearch2(text).ok
    /\ liability_cap = Cap(500, "USD")

----------------------------------------------------------------------------
\* C13: every run of extract_parties on one text returns the list that the
\* first run returned, in whichever process the runs are made: the same
\* parties in the same order.
C13_RunsAgree ==
    (pc = "parties_done" /\ past # <<>>) => parties = past[1]

----------------------------------------------------------------------------
\* one of the patterns has its head just before word i of t
HeadBefore(t, i) ==
    \E k \in 1..Len(PartyPatterns) : \E p \in 1..(i - 1) :
        /\ PhraseEnd(PartyPatterns[k].head, 1, t, p) > 0
        /\ SkipWs(t, PhraseEnd(PartyPatterns[k].head, 1, t, p) + 1) = i

\* the party e stands in t behind the head of a pattern and ends within the
\* first 2000 characters
InsideWindow(t, e) ==
    \E i \in 1..Len(t) :
        /\ i + Len(e.words) - 1 <= Len(t)
        /\ SubSeq(t, i, i + Len(e.words) - 1) = e.words
        /\ e.last <= WLen(e.words[Len(e.words)])
        /\ Off(t, i + Len(e.words) - 1) + e.last <= PartyWindow
        /\ HeadBefore(t, i)

\* C14: extract_parties returns at most 5 parties, none of them twice, and each
\* of them is a capture that stands behind the head of a party pattern and
\* ends within the first 2000 characters of the text.
C14_PartiesBounded ==
    pc = "parties_done" =>
        /\ Len(parties) <= 5
        /\ \A i, j \in 1..Len(parties) : parties[i] = parties[j] => i = j
        /\ \A i \in 1..Len(parties) : InsideWindow(text, parties[i])

\* more than five distinct candidates, of which five are returned
C14_Witness ==
    /\ pc = "parties_done"
    /\ Len(parties) = 5
    /\ Len(list_set(hash_seed, party_candidates(Cut(text, PartyWindow), 1))) > 5

\* a text longer than the window, whose party reaches the end of the window
C14_WitnessWindow ==
    /\ pc = "parties_done"
    /\ TextLen(text) > PartyWindow
    /\ parties # <<>>

----------------------------------------------------------------------------
\* the findings of the rules other than the raising ones
RECURSIVE OtherFindings(_, _, _, _, _)
OtherFindings(rules, i, t, d, raising) ==
    IF i > Len(rules) THEN <<>>
    ELSE PatternFindings(rules[i], t, 1)
         \o (IF i \in raising THEN <<>> ELSE CustomFindings(rules[i], t, d))
         \o OtherFindings(rules, i + 1, t, d, raising)

\* C15: when the custom check of a rule raises, audit_document still returns,
\* and it returns the findings of the other rules.
C15_RuleFailureIsolated ==
    (pc \in {"rules_done", "audit_failed"}
        /\ RaisingRules(risk_rules, text, extracted_data) # {})
      => /\ pc = "rules_done"
         /\ findings = OtherFindings(risk_rules, 1, text, extracted_data,
                                     RaisingRules(risk_rules, text, extracted_data))

----------------------------------------------------------------------------
\* the number of findings of a list that have the severity
Having(fs, sev) == Cardinality({i \in 1..Len(fs) : fs[i].severity = sev})

\* C16: generate_audit_summary always returns.  Without an LLM client, and
\* with a client whose call fails, the string returned is made of the
\* findings alone: the number of findings, the numbers of high, medium and low
\* findings and the risk score, or a fixed sentence when there are no findings.
C16_SummaryFallback ==
    /\ pc # "summary_failed"
    /\ (pc = "summarized" /\ llm \in {"unavailable", "fails"}) =>
          IF findings = <<>>
          THEN summary.kind \in {"no_risk", "no_risk_document"}
          ELSE summary = Summary("counts", Len(findings), Having(findings, "high"),
                                 Having(findings, "medium"), Having(findings, "low"),
                                 risk_score)

\* the call of the LLM failed and the counts were returned
C16_Witness ==
    /\ pc = "summarized" /\ llm = "fails"
    /\ Len(findings) = 3 /\ summary.kind = "counts"
    /\ summary.high = 2 /\ summary.low = 1

----------------------------------------------------------------------------
\* C17: when the LLM client is absent or its call fails and the search has
\* found chunks, /ask responds with 200: the citations are those of the first
\* chunks of the ranking, at most 5 of them, the answer is the fallback text
\* of generate_answer and the confidence is 0.0.
C17_AskWithoutLLM ==
    (pc = "asked" /\ llm \in {"unavailable", "fails"} /\ results # <<>>) =>
        /\ response.status = 200
        /\ Len(response.citations) = Min(Len(results), 5)
        /\ \A i \in 1..Len(response.citations) :
              /\ response.citations[i].chunk_id = results[i].chunk_id
              /\ response.citations[i].text_excerpt = results[i].text_content
        /\ response.answer = (IF llm = "unavailable" THEN "OpenAI API not configured"
                              ELSE "Error generating answer")
        /\ response.confidence = 0

\* the call of the LLM failed and five of more than five chunks are cited
C17_Witness ==
    /\ pc = "asked" /\ llm = "fails"
    /\ Len(results) > 5 /\ Len(response.citations) = 5
    /\ response.answer = "Error generating answer"

----------------------------------------------------------------------------
\* the four tables of the database
Stored == <<documents, document_chunks, extracted_rows, finding_rows>>

\* C18: a request to /extract, /audit or GET /documents/{id} that names a
\* document_id no stored document has is answered with 404 and a detail
\* message, and no table of the database is changed by it.
C18_MissingDocument404 ==
    [][((Extract \/ Audit \/ GetDocument) /\ request'.document_id \notin documents)
        => /\ response'.status = 404
           /\ response'.detail # <<>>
           /\ UNCHANGED Stored]_vars

\* each of the three endpoints has answered 404 while the database held a
\* document with its chunks, an extraction and findings
MissingAnswered(endpoint) ==
    /\ request.endpoint = endpoint
    /\ request.document_id \notin documents
    /\ response = NotFound(request.document_id)
    /\ documents # {} /\ document_chunks # <<>>
    /\ extracted_rows # <<>> /\ finding_rows # <<>>
C18_Witness == MissingAnswered("/extract")
C18_WitnessAudit == MissingAnswered("/audit")
C18_WitnessGet == MissingAnswered("/documents")

\* C19: the table extracted_data never holds two rows of one document, and a
\* /extract request for a document that has a row is answered with the values
\* of that row, method "rule-based" and confidence 0.7, the table staying as
\* it is.
RowsOf(rows, document_id) == {i \in 1..Len(rows) : rows[i].document_id = document_id}
C19_ExtractionStoredOnce ==
    [][/\ \A d \in DocIds : Cardinality(RowsOf(extracted_rows', d)) <= 1
       /\ (Extract /\ RowsOf(extracted_rows, request'.document_id) # {})
           => /\ UNCHANGED extracted_rows
              /\ \E i \in RowsOf(extracted_rows, request'.document_id) :
                    response' = ExtractResponse(request'.document_id, extracted_rows[i])
              /\ response'.extraction_method = "rule-based"
              /\ response'.confidence_score = RuleBasedConfidence]_vars

\* a stored extraction has been served by a process that would itself have
\* extracted the parties in another order
C19_Witness ==
    /\ request.endpoint = "/extract"
    /\ response.status = 200
    /\ RowsOf(extracted_rows, request.document_id) # {}
    /\ response.parties #
           extract_parties(hash_seed,
               JoinLines(get_document_chunks(document_chunks, request.document_id)))

----------------------------------------------------------------------------
\* C20: in every iteration of the loop of chunk_text under a valid
\* configuration the end chosen lies behind the cursor and not before the
\* candidate start + chunk_size, and the cursor after the iteration is
\* strictly greater than the cursor before it.
C20_IterationAdvances ==
    [][(ChunkIterate /\ ValidConfig)
        => /\ end' > start
           /\ end' >= start + chunk_size
           /\ start' > start]_vars

----------------------------------------------------------------------------
\* the rules that have several regexes and no custom check
SeveralRegexes ==
    {i \in 1..Len(RISK_RULES) :
        Len(RISK_RULES[i].patterns) > 1 /\ RISK_RULES[i].check_func = None}
\* the regexes of a rule that match the text
Matching(rule, t) == {k \in 1..Len(rule.patterns) : re_search(rule.patterns[k], t).ok}
OfType(fs, id) == SelectSeq(fs, LAMBDA f : f.finding_type = id)

\* C21: for a rule with several regexes audit_document returns one finding of
\* the rule if one of its regexes matches, made from the first match of the
\* first regex in list order that matches (span of the match, evidence within
\* 100 characters on either side), and nothing from the later regexes.
C21_FirstRegexOnly ==
    pc = "audited" =>
        \A i \in SeveralRegexes :
            OfType(findings, RISK_RULES[i].id) =
                IF Matching(RISK_RULES[i], text) = {} THEN <<>>
                ELSE <<PatternFinding(RISK_RULES[i], text,
                           re_search(RISK_RULES[i].patterns[
                               SetMin(Matching(RISK_RULES[i], text))], text))>>

----------------------------------------------------------------------------
\* the rules that have a custom check
CustomRules == {i \in 1..Len(RISK_RULES) : RISK_RULES[i].check_func # None}

\* C22: when the custom check of a rule returns no result, audit_document
\* returns no finding of that rule; so there is no AUTO_RENEWAL finding when a
\* notice period of at least 30 days stands within 500 characters of the
\* first renewal phrase, and no SHORT_NOTICE_TERMINATION finding when no
\* terminate/cancel ... N days notice occurrence has N below 30.
C22_CheckDecides ==
    pc = "audited" =>
        \A i \in CustomRules :
            ~CheckFunc(RISK_RULES[i].check_func, text, extracted_data).found
                => OfType(findings, RISK_RULES[i].id) = <<>>

----------------------------------------------------------------------------
\* the first of the results, in list order, that is one
RECURSIVE FirstFound(_)
FirstFound(rs) ==
    IF rs = <<>> THEN NoField
    ELSE IF Head(rs).found THEN Head(rs) ELSE FirstFound(Tail(rs))
AsField(t, m) == IF m.ok THEN Group1(t, m) ELSE NoField

\* what each pattern of a routine finds in the text on its own
DateResults(t) ==
    <<AsField(t, SearchEither(DatePatterns[1], t)),
      AsField(t, SearchEither(DatePatterns[2], t)),
      AsField(t, DirectSearch(EffectiveDate, WrittenDate, t))>>
TermResults(t) ==
    <<AsField(t, re_search(TermPattern1, t)),
      AsField(t, DirectSearch(ForAPeriodOf, Period, t)),
      RestOfLine(t, FirstHead(TermColon, t))>>
LawResults(t) ==
    <<LawPattern1(t, re_search(GapPat(GovernedBy, <<LawsOf>>), t)),
      LawPattern2(t),
      RestOfLine(t, FirstHead(GoverningLawColon, t))>>
PartyResults(ct) == [i \in 1..Len(PartyPatterns) |-> findall(ct, PartyPatterns[i], 1)]
FirstParties(rs) ==
    IF \A i \in 1..Len(rs) : rs[i] = <<>> THEN {}
    ELSE {rs[SetMin({i \in 1..Len(rs) : rs[i] # <<>>})][k] :
             k \in 1..Len(rs[SetMin({i \in 1..Len(rs) : rs[i] # <<>>})])}

\* C23: each routine of the field extractor returns what the first of its
\* patterns, in list order, that matches has found: the date, the term and
\* the governing law are the group of that pattern, and every party returned
\* is a match of that pattern.
C23_FirstPatternWins ==
    /\ pc = "dates_done" =>
           effective_date = FirstFound(DateResults(SliceWords(text, 0, DateWindow)))
    /\ pc = "term_done" =>
           term = FirstFound(TermResults(SliceWords(text, 0, TermWindow)))
    /\ pc = "law_done" => law = FirstFound(LawResults(text))
    /\ pc = "parties_done" =>
           \A i \in 1..Len(parties) :
               parties[i] \in FirstParties(PartyResults(Cut(text, PartyWindow)))

----------------------------------------------------------------------------
EventTypes(es) == [i \in 1..Len(es) |-> es[i].type]

\* C24: the events of a /stream response come in a fixed order on every path:
\* one citations event first, then one or more text events, then one "[DONE]"
\* event, which is the last; no text event stands before the citations event
\* and nothing follows "[DONE]".
C24_StreamOrder ==
    /\ events # <<>> => events[1].type = "citations"
    /\ \A i \in 2..Len(events) : events[i].type # "citations"
    /\ \A i \in 1..Len(events) : events[i].type = "[DONE]" => i = Len(events)
    /\ pc = "streamed" =>
          /\ Len(events) >= 3
          /\ events[Len(events)].type = "[DONE]"
          /\ \A i \in 2..(Len(events) - 1) : events[i].type = "text"

----------------------------------------------------------------------------
\* the text holds the word terminate or termination, in any case
HasTerminat(t) == \E i \in 1..Len(t) : Lower(t[i]) \in {"terminate", "termination"}
\* a fact map with entries is passed and its termination field is missing,
\* None or the empty string
EmptyTermination(d) ==
    /\ ~d.isNone /\ d.keys # {}
    /\ "termination" \notin d.keys \/ d.termination \in {None, ""}

----------------------------------------------------------------------------
\* C26: however the /audit requests for one document interleave, the findings
\* stored for the document are those of a single audit run, each stored once,
\* and every response that carries findings, first or cached, reports the
\* total_findings and the risk_score of that run.
SingleRun ==
    audit_document(text, ExtractedDict(extracted_rows, RaceId))
RaceAnswered == {i \in 1..Len(inflight) : inflight[i].response # NoResponse}
AllRaceAnswered ==
    Len(inflight) = MaxRequests /\ RaceAnswered = 1..Len(inflight)
C26_SingleAuditRun ==
    pc = "racing" =>
        /\ Len(finding_rows) <= Len(SingleRun.findings)
        /\ AllRaceAnswered => StoredFindings(finding_rows) = SingleRun.findings
        /\ \A i \in RaceAnswered :
              /\ inflight[i].response.status = 200
              /\ inflight[i].response.total_findings = Len(SingleRun.findings)
              /\ inflight[i].response.risk_score = SingleRun.risk_score
\* two requests have been answered, one with its own audit and one from the
\* findings stored
C26_Witness ==
    /\ pc = "racing"
    /\ AllRaceAnswered
    /\ SingleRun.findings # <<>>
    /\ \E i \in RaceAnswered : inflight[i].saved > 0
    /\ \E i \in RaceAnswered : inflight[i].saved = 0

----------------------------------------------------------------------------
\* the audit of the text of a document with the fact map stored for it
AuditNow(document_id) ==
    audit_document(JoinLines(get_document_chunks(document_chunks, document_id)),
                   ExtractedDict(extracted_rows, document_id))

\* C27: whatever /audit and /extract requests came before, the findings and
\* the risk score that /audit returns for a document are those of
\* audit_document on the text of the document and the fact map stored when the
\* request is made; an /extract between two /audit requests shows in the
\* second response.
C27_AuditFollowsFacts ==
    [][(Audit /\ response'.status = 200) =>
           /\ response'.findings = AuditNow(request'.document_id).findings
           /\ response'.risk_score = AuditNow(request'.document_id).risk_score]_vars
\* a first audit of a document that has a stored extraction
C27_Witness ==
    /\ pc = "serving" /\ request.endpoint = "/audit" /\ response.status = 200
    /\ get_extracted_data(extracted_rows, request.document_id) # 0
    /\ response.findings = AuditNow(request.document_id).findings
    /\ response.findings # audit_document(
           JoinLines(get_document_chunks(document_chunks, request.document_id)),
           NoData).findings

----------------------------------------------------------------------------
Elements(s) == {s[i] : i \in 1..Len(s)}

\* C28: after an /ingest request every document record that the request
\* created has its document_id among the document_ids of the response, and no
\* document record exists for a file that the request reports as an error;
\* total_documents is the number of the listed ids; the request is answered
\* with 400 exactly when it ingested no file and had at least one error.
C28_IngestAccounted ==
    [][IngestFiles =>
          /\ documents' \ documents = Elements(response'.document_ids)
          /\ \A df \in document_files' \ document_files :
                df[2] \notin Elements(response'.errors)
          /\ response'.total_documents = Len(response'.document_ids)
          /\ response'.status = 400 <=>
                 (response'.document_ids = <<>> /\ response'.errors # <<>>)]_vars
\* the same for the requests whose files the database accepts
C28_AcceptedAccounted ==
    [][(IngestFiles /\ \A i \in 1..Len(request'.files) :
                           request'.files[i].kind # "refused") =>
          /\ documents' \ documents = Elements(response'.document_ids)
          /\ \A df \in document_files' \ document_files :
                df[2] \notin Elements(response'.errors)
          /\ response'.total_documents = Len(response'.document_ids)
          /\ response'.status = 400 <=>
                 (response'.document_ids = <<>> /\ response'.errors # <<>>)]_vars

----------------------------------------------------------------------------
\* the places (from 1) of the characters of text[w[1]:w[2]] as Python cuts it
WindowPlaces(t, w) ==
    {p \in 1..Len(t) :
        /\ p > (IF w[1] < 0 THEN Max(w[1] + Len(t), 0) ELSE w[1])
        /\ p <= (IF w[2] < 0 THEN Max(w[2] + Len(t), 0) ELSE w[2])}
Stripped(chunk) ==
    chunk # <<>> /\ chunk[1] \notin Whitespace /\ chunk[Len(chunk)] \notin Whitespace

\* C29: for any text and any valid configuration the slices text[start:end]
\* that chunk_text cuts cover the text without gaps: the first starts at 0,
\* each next one starts at a place between 0 and the end of the one before,
\* and when the call returns the last one has reached the end of the text, so
\* that every character of the text that is not whitespace lies in a slice
\* that was cut; every chunk emitted is non-empty and has no whitespace at
\* its ends, and the empty text yields no chunk.
C29_WindowsCover ==
    (ValidConfig /\ pc \in {"loop", "done"}) =>
        /\ 0 <= start /\ (windows # {} => start <= end)
        /\ \A i \in 1..Len(chunks) : Stripped(chunks[i])
        /\ text = <<>> => chunks = <<>>
        /\ pc = "done" =>
              /\ text # <<>> => end >= Len(text)
              /\ \A p \in 1..Len(text) :
                    text[p] \notin Whitespace =>
                        \E w \in windows : p \in WindowPlaces(text, w)
\* the same, as far as the cursor has never been below 0
C29_CoverWhileForward ==
    (ValidConfig /\ pc \in {"loop", "done"} /\ 0 <= start
        /\ \A w \in windows : w[1] >= 0) =>
        /\ windows # {} => start <= end
        /\ \A i \in 1..Len(chunks) : Stripped(chunks[i])
        /\ text = <<>> => chunks = <<>>
        /\ pc = "done" =>
              /\ text # <<>> => end >= Len(text)
              /\ \A p \in 1..Len(text) :
                    text[p] \notin Whitespace =>
                        \E w \in windows : p \in WindowPlaces(text, w)
\* a call has returned and a letter of the text is in no slice
C29_LostCharacter ==
    ~(/\ ValidConfig /\ pc = "done"
      /\ \E p \in 1..Len(text) :
            /\ text[p] \notin Whitespace
            /\ \A w \in windows : p \notin WindowPlaces(text, w))

----------------------------------------------------------------------------
\* the fact map of /audit with the governing law that the extractor returned
LawFacts(field) ==
    Dict({"parties", "effective_date", "term", "governing_law", "termination",
          "auto_renewal"}, "section", FieldValue(field))

\* C30: the extractor and the auditor agree on the governing law: when
\* extract_governing_law returns a value for a text, audit_document on that
\* text with a fact map that carries the value has no MISSING_GOVERNING_LAW
\* finding.
C30_LawAgreement ==
    (pc = "law_done" /\ law.found) =>
        OfType(audit_document(text, LawFacts(law)).findings,
               "MISSING_GOVERNING_LAW") = <<>>
\* the same for the texts that hold the phrase "governing law" and give the
\* extractor a value that is not empty
C30_AgreementOnPhrase ==
    (pc = "law_done" /\ law.found /\ law.words # <<>>
        /\ re_search(GoverningLawRe, text).ok) =>
        OfType(audit_document(text, LawFacts(law)).findings,
               "MISSING_GOVERNING_LAW") = <<>>
\* a value was extracted from a text without the phrase
C30_ValueWithoutPhrase ==
    ~(pc = "law_done" /\ law.found /\ law.words # <<>>
        /\ ~re_search(GoverningLawRe, text).ok)
====
